---- MODULE Spec2Model ----
(***************************************************************************)
(* Model of the SwarmUI (LEGION) image generation flow of                  *)
(* rlbc_daily_to_notion.py: get_swarmui_session, generate_image_on_legion  *)
(* and download_image_from_swarmui, together with the module global        *)
(* LAST_SWARMUI_IMAGE_URL that the calls share.                            *)
(*                                                                         *)
(* Every HTTP request is one action: the backend's answer is drawn from a  *)
(* small set and the action carries out everything the code does with the  *)
(* answer up to the next request.  Python values are tagged records        *)
(* (Str, Num, List, Map) so that a string and a list never compare equal.  *)
(* An error text is modelled by the set of the substrings the code looks   *)
(* for that it contains.                                                   *)
(***************************************************************************)
EXTENDS Integers, Sequences, FiniteSets, TLC

VARIABLES
    pc,                      \* per call: the position in generate_image_on_legion
    ep,                      \* per call: index of `endpoint` in endpoints_to_try
    idx,                     \* per call: index of the running retry loop
    lowered,                 \* per call: substrings found in `lowered`
    response,                \* per call: the local variable `response`
    sent,                    \* per call: generation requests posted to the current `endpoint`
    lastResp,                \* per call: what the last request of the call drew
    fetched,                 \* per call: the URL the call downloaded from
    dlBytes,                 \* per call: image_bytes returned by the download
    result,                  \* per call: the returned pair
    sessions,                \* per call: what each session request drew
    gets,                    \* per call: the URLs of the download requests issued
    timeouts,                \* per call: the timeout argument of each kind of request made
    total,                   \* per call: generation requests posted so far (-1: not counted)
    codec,                   \* the data URL round trip: bytes, entry, decoder's return
    notion,                  \* create_notion_page_from_post: the post, the page, the attachment
    norm,                    \* normalize_refiner_method: the value given, the value returned
    LAST_SWARMUI_IMAGE_URL   \* the module global

vars == <<pc, ep, idx, lowered, response, sent, lastResp, fetched,
          dlBytes, result, sessions, gets, timeouts, total, codec, notion,
          norm, LAST_SWARMUI_IMAGE_URL>>

\* The calls of generate_image_on_legion that one process makes.
NumCalls == 2
Calls == 1..NumCalls

None == "None"

----------------------------------------------------------------------------
\* Configuration

LEGION_SWARMUI_URL == "http://legion:7861"
LEGION_MODEL == "Qwen_Image_Edit"
LEGION_WIDTH == 1168
LEGION_HEIGHT == 1488
LEGION_STEPS == 4
\* floats are carried as their Python repr
LEGION_CFG_SCALE == "1.0"
LEGION_REFINER_CONTROL_PERCENTAGE == "0.6"
\* "Post-Apply (Normal)", as the sequence of its characters
LEGION_REFINER_METHOD ==
    <<"P", "o", "s", "t", "-", "A", "p", "p", "l", "y", " ", "(", "N", "o", "r", "m",
      "a", "l", ")">>
LEGION_REFINER_UPSCALE == 2
LEGION_REFINER_UPSCALE_METHOD == "4xRealWebPhoto_v4_dat2.safetensors"
LEGION_REFINER_STEPS == 7
LEGION_REQUEST_TIMEOUT == 600

\* Mutation: the first two candidates swapped.
FALLBACK_REFINER_CANDIDATES_Swapped ==
    <<"latent-bicubic", "pixel-lanczos", "model-" \o LEGION_REFINER_UPSCALE_METHOD>>

FALLBACK_REFINER_CANDIDATES ==
    <<"pixel-lanczos", "latent-bicubic", "model-" \o LEGION_REFINER_UPSCALE_METHOD>>

\* LEGION_LORA_WEIGHTS = "A:0.9,B:0.6", LEGION_LORAS = "A,B"
LEGION_LORA_WEIGHTS == [A |-> "0.9", B |-> "0.6"]
LEGION_LORAS == <<"A", "B">>

\* LEGION_LORA_WEIGHTS.get(name, 1.0)
WeightOf(name) ==
    IF name \in DOMAIN LEGION_LORA_WEIGHTS THEN LEGION_LORA_WEIGHTS[name] ELSE "1.0"

----------------------------------------------------------------------------
\* Python values and dictionaries

Str(s) == [t |-> "str", v |-> s]
Num(n) == [t |-> "num", v |-> n]
Flt(r) == [t |-> "float", v |-> r]
Bool(b) == [t |-> "bool", v |-> b]
List(q) == [t |-> "list", v |-> q]
Map(m) == [t |-> "dict", v |-> m]

\* d[k] = v
Put(d, k, v) == [x \in (DOMAIN d) \cup {k} |-> IF x = k THEN v ELSE d[x]]
\* d.pop(k, None)
Pop(d, k) == [x \in (DOMAIN d) \ {k} |-> d[x]]
\* {k: v for k, v in d.items() if k not in drop}
Without(d, drop) == [x \in (DOMAIN d) \ drop |-> d[x]]

\* sep.join(parts)
RECURSIVE Join(_, _)
Join(parts, sep) ==
    IF Len(parts) = 0 THEN ""
    ELSE IF Len(parts) = 1 THEN parts[1]
    ELSE parts[1] \o sep \o Join(Tail(parts), sep)

\* [f(x) for x in q]
MapSeq(f(_), q) == [i \in 1..Len(q) |-> f(q[i])]

----------------------------------------------------------------------------
\* Strings the code inspects, by the features it tests

\* normalize_refiner_method works on the characters of its argument.
UpperCase ==
    <<"A", "B", "C", "D", "E", "F", "G", "H", "I", "J", "K", "L", "M",
      "N", "O", "P", "Q", "R", "S", "T", "U", "V", "W", "X", "Y", "Z">>
LowerCase ==
    <<"a", "b", "c", "d", "e", "f", "g", "h", "i", "j", "k", "l", "m",
      "n", "o", "p", "q", "r", "s", "t", "u", "v", "w", "x", "y", "z">>

\* ch.lower() of one character
LowerChar(ch) ==
    IF \E i \in 1..26 : UpperCase[i] = ch
    THEN LowerCase[CHOOSE i \in 1..26 : UpperCase[i] = ch]
    ELSE ch

\* m.lower()
Lowered(m) == [i \in 1..Len(m) |-> LowerChar(m[i])]

\* sub in s
Contains(s, sub) ==
    \E i \in 0..(Len(s) - Len(sub)) : SubSeq(s, i + 1, i + Len(sub)) = sub

\* Mutation: the substring tests made on the value as written.
normalize_refiner_method_CaseSensitive(m) ==
    IF m = <<>> THEN m
    ELSE IF Contains(m, <<"p", "o", "s", "t">>)
            /\ (Contains(m, <<"a", "p", "p", "l", "y">>)
                \/ Contains(m, <<"p", "o", "s", "t", "a", "p", "p", "l", "y">>))
         THEN <<"P", "o", "s", "t", "A", "p", "p", "l", "y">>
    ELSE IF Contains(m, <<"s", "t", "e", "p", "s", "w", "a", "p">>)
         THEN <<"S", "t", "e", "p", "S", "w", "a", "p">>
    ELSE IF Contains(m, <<"n", "o", "i", "s", "y">>)
         THEN <<"S", "t", "e", "p", "S", "w", "a", "p", "N", "o", "i", "s", "y">>
    ELSE m

\* Lines 301-311, on a string given as the sequence of its characters
normalize_refiner_method(m) ==
    IF m = <<>> THEN m
    ELSE LET s == Lowered(m)
         IN  IF Contains(s, <<"p", "o", "s", "t">>)
                /\ (Contains(s, <<"a", "p", "p", "l", "y">>)
                    \/ Contains(s, <<"p", "o", "s", "t", "a", "p", "p", "l", "y">>))
             THEN <<"P", "o", "s", "t", "A", "p", "p", "l", "y">>
             ELSE IF Contains(s, <<"s", "t", "e", "p", "s", "w", "a", "p">>)
             THEN <<"S", "t", "e", "p", "S", "w", "a", "p">>
             ELSE IF Contains(s, <<"n", "o", "i", "s", "y">>)
             THEN <<"S", "t", "e", "p", "S", "w", "a", "p", "N", "o", "i", "s", "y">>
             ELSE m

\* "lora" in k.lower(), over the keys a payload of this program can hold
KeyHasLora(k) ==
    k \in {"LoRAs", "loras", "loras_weights", "lora_weights", "LoRAWeights",
           "loras_weights_map", "loras_map", "lora_weights_map", "lora_map",
           "LoRAWeightsMap", "loras_to_weights", "loras_comma", "loras_list",
           "loras_string", "loras_weights_string"}

\* k.startswith("refiner")
KeyStartsWithRefiner(k) ==
    k \in {"refiner_control_percentage", "refiner_method", "refiner_upscale",
           "refiner_upscale_method", "refiner_steps", "refiner_model"}

\* k.lower() in ("loras_comma", "loras_list")
KeyIsAuxLora(k) == k \in {"loras_comma", "loras_list"}

\* w.is_integer() and int(w), on the repr of a float
IsInteger(w) == w \in {"0.0", "1.0", "2.0"}
IntOf(w) == CASE w = "0.0" -> 0 [] w = "1.0" -> 1 [] w = "2.0" -> 2

\* str(w) of an entry of loras_weights_list
StrOf(x) ==
    IF x.t = "float" THEN x.v
    ELSE CASE x.v = 0 -> "0" [] x.v = 1 -> "1" [] x.v = 2 -> "2"

----------------------------------------------------------------------------
\* Payload construction

base_prompt == "photorealistic book shelfie photograph"
negative_prompt == "blurry, low quality"

loras_names_only == LEGION_LORAS

WeightedName(name) ==
    IF WeightOf(name) = "1.0" THEN name ELSE name \o ":" \o WeightOf(name)

build_weighted_loras == MapSeq(WeightedName, LEGION_LORAS)

loras_comma == Join(build_weighted_loras, ",")

\* Mutation: every weight sent as the default.
WeightEntry_AlwaysDefault(name) == Num(1)

WeightEntry(name) ==
    IF IsInteger(WeightOf(name)) THEN Num(IntOf(WeightOf(name)))
    ELSE Flt(WeightOf(name))

loras_weights_list == MapSeq(WeightEntry, loras_names_only)

loras_weights_string == Join(MapSeq(StrOf, loras_weights_list), ",")

loras_weights_map == [n \in {LEGION_LORAS[i] : i \in 1..Len(LEGION_LORAS)} |-> WeightOf(n)]

payload(session_id) ==
    [session_id |-> Str(session_id),
     prompt |-> Str(base_prompt),
     negativeprompt |-> Str(negative_prompt),
     model |-> Str(LEGION_MODEL),
     width |-> Num(LEGION_WIDTH),
     height |-> Num(LEGION_HEIGHT),
     steps |-> Num(LEGION_STEPS),
     cfgscale |-> Flt(LEGION_CFG_SCALE),
     sampler |-> Str("euler_ancestral"),
     scheduler |-> Str("normal"),
     images |-> Num(1),
     refiner_control_percentage |-> Flt(LEGION_REFINER_CONTROL_PERCENTAGE),
     refiner_method |-> Str(Join(normalize_refiner_method(LEGION_REFINER_METHOD), "")),
     refiner_upscale |-> Num(LEGION_REFINER_UPSCALE),
     refiner_upscale_method |-> Str(LEGION_REFINER_UPSCALE_METHOD),
     refiner_steps |-> Num(LEGION_REFINER_STEPS),
     automatic_vae |-> Bool(TRUE),
     LoRAs |-> List(loras_names_only),
     loras |-> List(loras_names_only),
     weights |-> List(loras_weights_list),
     sigma_shift |-> Num(1),
     preferred_dtype |-> Str("default")]

endpoints_to_try ==
    <<LEGION_SWARMUI_URL \o "/API/GenerateText2Image",
      LEGION_SWARMUI_URL \o "/Text2Image">>

\* Mutation: the retry after a model error sends a minimal payload.
fallback_payload_Minimal(session_id) ==
    [session_id |-> Str(session_id), prompt |-> Str(base_prompt),
     model |-> Str(LEGION_MODEL), images |-> Num(1)]

fallback_payload(session_id) ==
    LET p1 == Pop(payload(session_id), "cfgscale")
        p2 == Put(p1, "cfg_scale", Flt(LEGION_CFG_SCALE))
        p3 == Put(p2, "sampler", Str("euler_a"))
        p4 == Put(p3, "LoRAs", List(loras_names_only))
        p5 == Put(p4, "loras", List(loras_names_only))
        p6 == Put(p5, "weights", List(loras_weights_list))
    IN  Without(p6, {"loras_weights", "loras_string", "loras_weights_string"})

\* parts: the names of payload["loras"], stripped, the empty ones dropped
IsNonEmpty(s) == s # ""
parts == SelectSeq(payload("")["loras"].v, IsNonEmpty)

\* Mutation: the variants in the order list, comma, triple pipe, single pipe,
\* space, semicolon, concatenated.
variants_ListFirst ==
    <<List(parts), Str(Join(parts, ",")), Str(Join(parts, "|||")),
      Str(Join(parts, "|")), Str(Join(parts, " ")), Str(Join(parts, ";")),
      Str(Join(parts, ""))>>

\* Mutation: the comma-joined string and the list are the only variants.
variants_CommaAndList == <<Str(Join(parts, ",")), List(parts)>>

variants ==
    <<Str(Join(parts, ",")), Str(Join(parts, " ")), Str(Join(parts, "|")),
      Str(Join(parts, "|||")), Str(Join(parts, ";")), Str(Join(parts, "")),
      List(parts)>>

weight_map_candidates ==
    <<"loras_weights_map", "loras_map", "lora_weights_map", "lora_map",
      "weights_map", "weightsMap", "LoRAWeightsMap", "loras_to_weights">>

\* Mutation: the weight keys in another order.
weight_key_candidates_WeightsFirst ==
    <<"weights", "loras_weights", "lora_weights", "LoRAWeights">>

weight_key_candidates == <<"loras_weights", "lora_weights", "weights", "LoRAWeights">>

\* payload_try of the i-th pass of the weight map loop
WeightMapTry(session_id, i) ==
    LET p == Put(Put(payload(session_id), "prompt", Str(base_prompt)),
                 weight_map_candidates[i], Map(loras_weights_map))
    IN  Without(p, {k \in DOMAIN p : KeyIsAuxLora(k)})

\* payload_try of the i-th pass of the weight key loops: key (i+1) \div 2, the
\* list when i is odd and the comma string when i is even
WeightKeyTry(session_id, i) ==
    LET wk == weight_key_candidates[(i + 1) \div 2]
        val == IF i % 2 = 1 THEN List(loras_weights_list) ELSE Str(loras_weights_string)
        p == Put(Put(payload(session_id), "prompt", Str(base_prompt)), wk, val)
    IN  Without(p, {k \in DOMAIN p : KeyIsAuxLora(k)})

\* payload_try of the i-th pass of the variants loop
\* Mutation: the variant retry also drops the parallel weights list.
VariantTry_DropsWeights(session_id, i) ==
    LET p1 == Put(payload(session_id), "loras", variants[i])
        p2 == Put(p1, "LoRAs", variants[i])
    IN  Without(p2, {"weights"})

VariantTry(session_id, i) ==
    LET p0 == Put(payload(session_id), "prompt", Str(base_prompt))
        p1 == Put(p0, "loras", variants[i])
        p2 == Put(p1, "LoRAs", variants[i])
    IN  Without(p2, {k \in DOMAIN p2 : KeyIsAuxLora(k)})

payload_no_loras(session_id) ==
    LET p == payload(session_id)
    IN  Put(Without(p, {k \in DOMAIN p : KeyHasLora(k)}), "prompt", Str(base_prompt))

payload_no_refiner(session_id) ==
    LET p == payload(session_id)
    IN  Without(p, {k \in DOMAIN p : KeyStartsWithRefiner(k)})

\* cleaned of the i-th pass of the refiner candidate loop
cleaned(session_id, i) ==
    Put(Pop(payload(session_id), "refiner_model"), "refiner_upscale_method",
        Str(FALLBACK_REFINER_CANDIDATES[i]))

\* The payload of a posted request, from what the log keeps of it.
PayloadOf(session_id, req) ==
    CASE req.kind = "primary" -> payload(session_id)
      [] req.kind = "fallback" -> fallback_payload(session_id)
      [] req.kind = "wmap" -> WeightMapTry(session_id, req.i)
      [] req.kind = "wkey" -> WeightKeyTry(session_id, req.i)
      [] req.kind = "variant" -> VariantTry(session_id, req.i)
      [] req.kind = "noloras" -> payload_no_loras(session_id)
      [] req.kind = "norefiner" -> payload_no_refiner(session_id)
      [] req.kind = "candidate" -> cleaned(session_id, req.i)

----------------------------------------------------------------------------
\* The backend

\* An error text, by the substrings the classification looks for that it
\* contains: "model" for one of the four model phrases, "lora" for "lora",
\* "refiner" for "refiner" or "unrecognized".
Texts == SUBSET {"model", "lora", "refiner"}

\* The texts drawn by a retry whose text the code never reads.
RetryTexts == {{}, {"model"}}

\* The text of a success body, read after the fallback retry only.
OkTexts == {{}, {"lora"}, {"refiner"}}

\* The exceptions of the primary POST, which has a handler for each kind, and
\* of a retry, whose single handler takes every kind alike.
ExcKinds == {"conn", "timeout", "error"}
RetryExcKinds == {"timeout"}

\* First entries of an images list: the string and what the decoder tests of it.
DataUrlEntry ==
    [text |-> "data:image/png;base64,aW1n", startsData |-> TRUE, hasSlash |-> TRUE,
     long |-> FALSE, pointerLike |-> FALSE, decoded |-> "img"]
BadDataUrlEntry ==
    [text |-> "data:image/png;base64,a", startsData |-> TRUE, hasSlash |-> TRUE,
     long |-> FALSE, pointerLike |-> FALSE, decoded |-> "raise"]
RawEntry ==
    [text |-> "aW1n...", startsData |-> FALSE, hasSlash |-> FALSE,
     long |-> TRUE, pointerLike |-> FALSE, decoded |-> "img"]
PointerEntry(name) ==
    [text |-> "View/local/raw/" \o name, startsData |-> FALSE, hasSlash |-> TRUE,
     long |-> FALSE, pointerLike |-> TRUE, decoded |-> "raise"]
\* A data URL whose base64 text holds "View/": "View/abc" decodes.
DataViewEntry ==
    [text |-> "data:image/png;base64,View/abc", startsData |-> TRUE, hasSlash |-> TRUE,
     long |-> FALSE, pointerLike |-> TRUE, decoded |-> "img2"]
\* "data:" followed by more than 100 characters, no '/' and no ',': the split
\* at the comma raises.
LongDataEntry ==
    [text |-> "data:AAAA...", startsData |-> TRUE, hasSlash |-> FALSE,
     long |-> TRUE, pointerLike |-> FALSE, decoded |-> "raise"]
AbsPointerEntry ==
    [text |-> "/out/c.png", startsData |-> FALSE, hasSlash |-> TRUE,
     long |-> FALSE, pointerLike |-> TRUE, decoded |-> "raise"]
UnknownEntry ==
    [text |-> "oops", startsData |-> FALSE, hasSlash |-> FALSE,
     long |-> FALSE, pointerLike |-> FALSE, decoded |-> "raise"]

Entries ==
    {DataUrlEntry, BadDataUrlEntry, RawEntry, PointerEntry("a.png"),
     PointerEntry("b.png"), AbsPointerEntry, DataViewEntry, LongDataEntry,
     UnknownEntry}

\* Bodies of a success response: not JSON, or JSON with an images list.
NoBody == [json |-> FALSE, images |-> <<>>]
Bodies == {NoBody, [json |-> TRUE, images |-> <<>>]}
              \cup {[json |-> TRUE, images |-> <<e>>] : e \in Entries}

\* What a POST draws: an exception, or a response with its status and the
\* substrings of its text.  A success body is drawn when the code parses it.
Exc(kind) == [st |-> kind, text |-> {}]
Ok(text) == [st |-> "ok", text |-> text]
Fail(text) == [st |-> "fail", text |-> text]

PrimaryOutcomes ==
    {Exc(k) : k \in ExcKinds} \cup {Ok({})} \cup {Fail(t) : t \in Texts}

FallbackOutcomes ==
    {Exc(k) : k \in RetryExcKinds} \cup {Ok(t) : t \in OkTexts}
        \cup {Fail(t) : t \in Texts}

RetryOutcomes ==
    {Exc(k) : k \in RetryExcKinds} \cup {Ok({})} \cup {Fail(t) : t \in RetryTexts}

SessionId(c) == IF c = 1 THEN "sess-1" ELSE "sess-2"

----------------------------------------------------------------------------
\* generate_image_on_legion

Set(f, c, v) == [f EXCEPT ![c] = v]

NoResponse == [st |-> "none", body |-> NoBody]
\* The round trip of the data URL branch not under way.
NoCodec == [stage |-> "off", b |-> <<>>, first |-> <<>>, kind |-> "pending", out |-> <<>>]
\* The generation requests of the calls are not counted.
NotCounted == [c \in Calls |-> -1]
\* create_notion_page_from_post not under way.
NoNotion ==
    [stage |-> "off", flow |-> "none", post_type |-> "", book_title |-> "",
     image |-> [bytes |-> [none |-> TRUE, b |-> <<>>], url |-> "None"],
     args |-> [image_bytes |-> [none |-> TRUE, b |-> <<>>], external_url |-> "None"],
     patch |-> [made |-> FALSE, url |-> ""], ret |-> "pending",
     page |-> FALSE, generated |-> FALSE,
     main |-> FALSE, posts |-> <<>>, calls |-> <<>>, outcomes |-> <<>>]
\* normalize_refiner_method not under way.
NoNorm == [stage |-> "off", m |-> <<>>, out |-> <<>>]
NoResult == [bytes |-> "pending", url |-> "pending"]
Failure == [bytes |-> None, url |-> None]
\* An exception that leaves generate_image_on_legion instead of a return value.
Raised == [bytes |-> "exception", url |-> "exception"]

Min(a, b) == IF a <= b THEN a ELSE b

\* Mutation: the session request bounded by the configured timeout alone.
session_timeout_Configured(t) == t

\* timeout=min(LEGION_REQUEST_TIMEOUT, 30) of the session request
session_timeout(t) == Min(t, 30)

\* timeout=min(LEGION_REQUEST_TIMEOUT, 300) of the image download
download_timeout(t) == Min(t, 300)

\* timeout=LEGION_REQUEST_TIMEOUT of do_post and of the candidate retries
do_post_timeout == LEGION_REQUEST_TIMEOUT

\* The timeout argument a request of call c was made with.
Timed(c, op, t) == timeouts' = Set(timeouts, c, timeouts[c] \cup {[op |-> op, timeout |-> t]})

\* Mutation: any response held counts as a success.
ResponseOk_Any(c) == response[c].st # "none"

\* response.ok of the local `response` (None counts as not ok)
ResponseOk(c) == response[c].st = "ok"

\* The request posted (with whether it drew a success response) and the answer
\* it drew.  The primary request opens the log of its endpoint, so until the
\* next endpoint's primary request is posted the log is the previous endpoint's.
Posted(c, kind, i, out) ==
    /\ sent' = Set(sent, c, Append(IF kind = "primary" THEN <<>> ELSE sent[c],
                                   [ep |-> ep[c], kind |-> kind, i |-> i,
                                    ok |-> (out.st = "ok")]))
    /\ lastResp' = Set(lastResp, c, [st |-> out.st, text |-> out.text])
    /\ Timed(c, "generate", do_post_timeout)
    /\ total' = IF total[c] < 0 THEN total ELSE Set(total, c, total[c] + 1)

\* `response = retry_resp`
Held(out) == [st |-> out.st, body |-> NoBody]

\* Mutation: a loop that takes the same endpoint again.
NextEndpoint_Same(c) ==
    /\ idx' = Set(idx, c, 0)
    /\ ep' = ep
    /\ pc' = Set(pc, c, "primary")
    /\ result' = result

\* The for loop of line 390 taking its next endpoint, or ending: line 658.
NextEndpoint(c) ==
    /\ idx' = Set(idx, c, 0)
    /\ IF ep[c] < Len(endpoints_to_try)
       THEN /\ ep' = Set(ep, c, ep[c] + 1)
            /\ pc' = Set(pc, c, "primary")
            /\ result' = result
       ELSE /\ ep' = ep
            /\ pc' = Set(pc, c, "done")
            /\ result' = Set(result, c, Failure)

\* Mutation: `return None, None` where the code has `continue`.
Continue_GiveUp(c) ==
    /\ response' = Set(response, c, NoResponse)
    /\ lowered' = Set(lowered, c, {})
    /\ idx' = Set(idx, c, 0)
    /\ ep' = ep
    /\ pc' = Set(pc, c, "done")
    /\ result' = Set(result, c, Failure)

\* `continue`, and the end of the loop body: the next endpoint, or the final
\* return.  `response` and `lowered` are dead here (the next pass assigns them
\* before it reads them), so the model clears them.
Continue(c) ==
    /\ response' = Set(response, c, NoResponse)
    /\ lowered' = Set(lowered, c, {})
    /\ NextEndpoint(c)

Goto(c, p, i) ==
    /\ pc' = Set(pc, c, p)
    /\ idx' = Set(idx, c, i)
    /\ ep' = ep
    /\ result' = result

\* Mutation: the refiner block entered whatever the text says.
AfterLoras_AlwaysRefiner(low) == "norefiner"

\* Where the code goes after the LoRA block: the refiner block or line 618.
AfterLoras(low) == IF "refiner" \in low THEN "norefiner" ELSE "check"

\* Where the code goes after the model block: the LoRA block or further.
AfterModel(low) == IF "lora" \in low THEN "wmap" ELSE AfterLoras(low)

\* Where the code goes after classifying the primary rejection.
AfterPrimary(low) == IF "model" \in low THEN "fallback" ELSE AfterModel(low)

\* Mutation: the retry loops entered one index early.
FirstIndex_Early(p) == 0

FirstIndex(p) == IF p \in {"wmap", "wkey", "variant", "candidate"} THEN 1 ELSE 0

\* What the session request draws: a session id, a body without one, a
\* connection error, a non-success status (raise_for_status), any other error.
SessionOutcomes == {"ok", "noid", "conn", "status", "error"}

\* The value get_swarmui_session returns for what its request drew.
get_swarmui_session(c, out) == IF out = "ok" THEN SessionId(c) ELSE None

\* Mutation: the flow goes on to the generation request without a session id.
GetSession_Proceed(c) ==
    /\ pc[c] = "session"
    /\ \E out \in SessionOutcomes :
          /\ sessions' = Set(sessions, c, Append(sessions[c], out))
          /\ Timed(c, "session", session_timeout(LEGION_REQUEST_TIMEOUT))
          /\ pc' = Set(pc, c, "primary")
          /\ result' = result
    /\ UNCHANGED <<gets, ep, idx, lowered, response, sent, lastResp, fetched,
                   dlBytes, total, LAST_SWARMUI_IMAGE_URL>>

\* Lines 271-273: the session request, and the return when it yields no id.
GetSession(c) ==
    /\ pc[c] = "session"
    /\ \E out \in SessionOutcomes :
          /\ sessions' = Set(sessions, c, Append(sessions[c], out))
          /\ Timed(c, "session", session_timeout(LEGION_REQUEST_TIMEOUT))
          /\ IF get_swarmui_session(c, out) # None
             THEN /\ pc' = Set(pc, c, "primary")
                  /\ result' = result
             ELSE /\ pc' = Set(pc, c, "done")
                  /\ result' = Set(result, c, Failure)
    /\ UNCHANGED <<gets, ep, idx, lowered, response, sent, lastResp, fetched,
                   dlBytes, total, LAST_SWARMUI_IMAGE_URL>>

PostPrimary(c) ==
    /\ pc[c] = "primary"
    /\ \E out \in PrimaryOutcomes :
          /\ Posted(c, "primary", 0, out)
          /\ CASE out.st \in ExcKinds -> Continue(c)
               [] out.st = "ok" ->
                    /\ response' = Set(response, c, Held(out))
                    /\ Goto(c, "check", 0)
                    /\ UNCHANGED lowered
               [] out.st = "fail" ->
                    /\ response' = Set(response, c, Held(out))
                    /\ lowered' = Set(lowered, c, out.text)
                    /\ Goto(c, AfterPrimary(out.text), FirstIndex(AfterPrimary(out.text)))
    /\ UNCHANGED <<sessions, gets, fetched, dlBytes, LAST_SWARMUI_IMAGE_URL>>

\* Mutation: the text of a failed fallback retry left unread.
PostFallback_TextUnread(c) ==
    /\ pc[c] = "fallback"
    /\ \E out \in FallbackOutcomes :
          /\ Posted(c, "fallback", 0, out)
          /\ IF out.st \in RetryExcKinds \/ out.st = "fail"
             THEN /\ UNCHANGED <<response, lowered>>
                  /\ Goto(c, AfterModel(lowered[c]), FirstIndex(AfterModel(lowered[c])))
             ELSE LET low == lowered[c] \cup out.text
                  IN  /\ response' = Set(response, c, Held(out))
                      /\ lowered' = Set(lowered, c, low)
                      /\ Goto(c, AfterModel(low), FirstIndex(AfterModel(low)))
    /\ UNCHANGED <<sessions, gets, fetched, dlBytes, LAST_SWARMUI_IMAGE_URL>>

PostFallback(c) ==
    /\ pc[c] = "fallback"
    /\ \E out \in FallbackOutcomes :
          /\ Posted(c, "fallback", 0, out)
          /\ IF out.st \in RetryExcKinds
             THEN /\ UNCHANGED <<response, lowered>>
                  /\ Goto(c, AfterModel(lowered[c]), FirstIndex(AfterModel(lowered[c])))
             ELSE LET low == lowered[c] \cup out.text
                  IN  /\ response' = Set(response, c, Held(out))
                      /\ lowered' = Set(lowered, c, low)
                      /\ Goto(c, AfterModel(low), FirstIndex(AfterModel(low)))
    /\ UNCHANGED <<sessions, gets, fetched, dlBytes, LAST_SWARMUI_IMAGE_URL>>

\* Mutation: a retry loop without its `break` on success.
LoraAttempt_NoBreak(c, kind, n, next) ==
    /\ pc[c] = kind
    /\ \E out \in RetryOutcomes :
          /\ Posted(c, kind, idx[c], out)
          /\ IF out.st = "ok"
             THEN response' = Set(response, c, Held(out))
             ELSE UNCHANGED response
          /\ IF idx[c] < n
             THEN Goto(c, kind, idx[c] + 1)
             ELSE Goto(c, next, FirstIndex(next))
    /\ UNCHANGED <<sessions, gets, lowered, fetched, dlBytes, LAST_SWARMUI_IMAGE_URL>>

\* Mutation: an exception of a retry abandons the endpoint.
LoraAttempt_AbortOnError(c, kind, n, next) ==
    /\ pc[c] = kind
    /\ \E out \in RetryOutcomes :
          /\ Posted(c, kind, idx[c], out)
          /\ IF out.st = "ok"
             THEN /\ response' = Set(response, c, Held(out))
                  /\ Goto(c, AfterLoras(lowered[c]), 0)
                  /\ UNCHANGED lowered
             ELSE IF out.st \in RetryExcKinds
             THEN Continue(c)
             ELSE /\ UNCHANGED <<response, lowered>>
                  /\ IF idx[c] < n
                     THEN Goto(c, kind, idx[c] + 1)
                     ELSE Goto(c, next, FirstIndex(next))
    /\ UNCHANGED <<sessions, gets, fetched, dlBytes, LAST_SWARMUI_IMAGE_URL>>

\* One pass of a LoRA retry loop of `n` passes, followed by the loop `next`.
LoraAttempt(c, kind, n, next) ==
    /\ pc[c] = kind
    /\ \E out \in RetryOutcomes :
          /\ Posted(c, kind, idx[c], out)
          /\ IF out.st = "ok"
             THEN /\ response' = Set(response, c, Held(out))
                  /\ Goto(c, AfterLoras(lowered[c]), 0)
             ELSE /\ UNCHANGED response
                  /\ IF idx[c] < n
                     THEN Goto(c, kind, idx[c] + 1)
                     ELSE Goto(c, next, FirstIndex(next))
    /\ UNCHANGED <<sessions, gets, lowered, fetched, dlBytes, LAST_SWARMUI_IMAGE_URL>>

PostWeightMap(c) == LoraAttempt(c, "wmap", Len(weight_map_candidates), "wkey")

PostWeightKey(c) == LoraAttempt(c, "wkey", 2 * Len(weight_key_candidates), "variant")

\* Mutation: no field-removed retry after the variants.
PostVariant_NoRemoval(c) == LoraAttempt(c, "variant", Len(variants), "check")

PostVariant(c) == LoraAttempt(c, "variant", Len(variants), "noloras")

\* Mutation: a failed field-removed retry falling through to the refiner block.
PostNoLoras_FallsThrough(c) ==
    /\ pc[c] = "noloras"
    /\ \E out \in RetryOutcomes :
          /\ Posted(c, "noloras", 0, out)
          /\ IF out.st = "ok"
             THEN response' = Set(response, c, Held(out))
             ELSE UNCHANGED response
          /\ Goto(c, AfterLoras(lowered[c]), 0)
          /\ UNCHANGED lowered
    /\ UNCHANGED <<sessions, gets, fetched, dlBytes, LAST_SWARMUI_IMAGE_URL>>

PostNoLoras(c) ==
    /\ pc[c] = "noloras"
    /\ \E out \in RetryOutcomes :
          /\ Posted(c, "noloras", 0, out)
          /\ IF out.st = "ok"
             THEN /\ response' = Set(response, c, Held(out))
                  /\ Goto(c, AfterLoras(lowered[c]), 0)
                  /\ UNCHANGED lowered
             ELSE Continue(c)
    /\ UNCHANGED <<sessions, gets, fetched, dlBytes, LAST_SWARMUI_IMAGE_URL>>

PostNoRefiner(c) ==
    /\ pc[c] = "norefiner"
    /\ \E out \in RetryOutcomes :
          /\ Posted(c, "norefiner", 0, out)
          /\ IF out.st = "ok"
             THEN response' = Set(response, c, Held(out))
             ELSE UNCHANGED response
          /\ Goto(c, "candidate", 1)
    /\ UNCHANGED <<sessions, gets, lowered, fetched, dlBytes, LAST_SWARMUI_IMAGE_URL>>

PostCandidate(c) ==
    /\ pc[c] = "candidate"
    /\ \E out \in RetryOutcomes :
          /\ Posted(c, "candidate", idx[c], out)
          /\ IF out.st = "ok"
             THEN /\ response' = Set(response, c, Held(out))
                  /\ Goto(c, "check", 0)
             ELSE /\ UNCHANGED response
                  /\ IF idx[c] < Len(FALLBACK_REFINER_CANDIDATES)
                     THEN Goto(c, "candidate", idx[c] + 1)
                     ELSE Goto(c, "check", 0)
    /\ UNCHANGED <<sessions, gets, lowered, fetched, dlBytes, LAST_SWARMUI_IMAGE_URL>>

\* Mutation: the decoder without its data-URL branch.
ClassifyEntry_NoDataUrl(first) ==
    IF ~first.hasSlash /\ first.long THEN "rawb64"
    ELSE IF first.pointerLike THEN "pointer"
    ELSE "unknown"

\* Mutation: the pointer test made before the inline tests.
ClassifyEntry_PointerFirst(first) ==
    IF first.pointerLike THEN "pointer"
    ELSE IF first.startsData THEN "dataurl"
    ELSE IF ~first.hasSlash /\ first.long THEN "rawb64"
    ELSE "unknown"

\* The decoder's classification of images[0]
ClassifyEntry(first) ==
    IF first.startsData THEN "dataurl"
    ELSE IF ~first.hasSlash /\ first.long THEN "rawb64"
    ELSE IF first.pointerLike THEN "pointer"
    ELSE "unknown"

Return(c, r) ==
    /\ result' = Set(result, c, r)
    /\ pc' = Set(pc, c, "done")
    /\ UNCHANGED <<ep, idx>>

\* Mutation: `return None, None` where lines 623 and 627 have `continue`.
NoImages_GiveUp(c, body) ==
    /\ response' = Set(response, c, [st |-> "ok", body |-> body])
    /\ lowered' = Set(lowered, c, {})
    /\ Return(c, Failure)

\* Lines 619-627: a body that is not JSON, or has no images, ends the pass for
\* this endpoint (`continue`); the parsed body stays in the model's `response`.
NoImages(c, body) ==
    /\ response' = Set(response, c, [st |-> "ok", body |-> body])
    /\ lowered' = Set(lowered, c, {})
    /\ NextEndpoint(c)

\* Lines 618-656: what is done with the response held at the end of the loop
\* body; response.json() yields the body the server sent.
CheckResponse(c) ==
    /\ pc[c] = "check"
    /\ IF ~ResponseOk(c)
       THEN /\ Continue(c)
            /\ UNCHANGED LAST_SWARMUI_IMAGE_URL
       ELSE \E body \in Bodies :
              IF ~body.json \/ body.images = <<>>
              THEN /\ NoImages(c, body)
                   /\ UNCHANGED LAST_SWARMUI_IMAGE_URL
              ELSE /\ response' = Set(response, c, [st |-> "ok", body |-> body])
                   /\ UNCHANGED lowered
                   /\ LET first == body.images[1]
                          class == ClassifyEntry(first)
                      IN  CASE class \in {"dataurl", "rawb64"} ->
                                 IF first.decoded # "raise"
                                 THEN /\ LAST_SWARMUI_IMAGE_URL' = None
                                      /\ Return(c, [bytes |-> first.decoded, url |-> None])
                                 ELSE /\ UNCHANGED LAST_SWARMUI_IMAGE_URL
                                      /\ Return(c, Failure)
                            [] class = "pointer" ->
                                 /\ Goto(c, "download", 0)
                                 /\ UNCHANGED LAST_SWARMUI_IMAGE_URL
                            [] class = "unknown" ->
                                 /\ UNCHANGED LAST_SWARMUI_IMAGE_URL
                                 /\ Return(c, Failure)
    /\ UNCHANGED <<sessions, gets, sent, lastResp, fetched, dlBytes, timeouts, total>>

\* Mutation: the path appended to the server address without the slash.
ImageUrl_NoSlash(image_path) == LEGION_SWARMUI_URL \o image_path

\* image_url = f"{LEGION_SWARMUI_URL}/{image_path}"
ImageUrl(image_path) == LEGION_SWARMUI_URL \o "/" \o image_path

\* What the GET yields: content, empty content, or an exception.
Contents == {"dl", "", "raise"}

\* Mutation: the download without its try/except, the exception reaching the
\* caller of generate_image_on_legion.
download_image_from_swarmui_NoTry(c) ==
    /\ pc[c] = "download"
    /\ LET image_url == ImageUrl(response[c].body.images[1].text)
       IN  /\ gets' = Set(gets, c, Append(gets[c], image_url))
           /\ Timed(c, "download", download_timeout(LEGION_REQUEST_TIMEOUT))
           /\ \E content \in Contents :
                 IF content = "raise"
                 THEN /\ dlBytes' = Set(dlBytes, c, None)
                      /\ UNCHANGED <<LAST_SWARMUI_IMAGE_URL, fetched>>
                      /\ Return(c, Raised)
                 ELSE /\ dlBytes' = Set(dlBytes, c, content)
                      /\ LAST_SWARMUI_IMAGE_URL' = image_url
                      /\ fetched' = Set(fetched, c, image_url)
                      /\ Goto(c, "downloaded", 0)
    /\ UNCHANGED <<sessions, lowered, response, sent, lastResp, total>>

\* Mutation: the global assigned before the GET.
download_image_from_swarmui_SetsFirst(c) ==
    /\ pc[c] = "download"
    /\ LET image_url == ImageUrl(response[c].body.images[1].text)
       IN  /\ gets' = Set(gets, c, Append(gets[c], image_url))
           /\ Timed(c, "download", download_timeout(LEGION_REQUEST_TIMEOUT))
           /\ LAST_SWARMUI_IMAGE_URL' = image_url
           /\ \E content \in Contents :
                 IF content = "raise"
                 THEN /\ dlBytes' = Set(dlBytes, c, None)
                      /\ UNCHANGED fetched
                 ELSE /\ dlBytes' = Set(dlBytes, c, content)
                      /\ fetched' = Set(fetched, c, image_url)
    /\ Goto(c, "downloaded", 0)
    /\ UNCHANGED <<sessions, lowered, response, sent, lastResp, total>>

\* download_image_from_swarmui(first): the GET, the global's update, the return
download_image_from_swarmui(c) ==
    /\ pc[c] = "download"
    /\ LET image_url == ImageUrl(response[c].body.images[1].text)
       IN  /\ gets' = Set(gets, c, Append(gets[c], image_url))
           /\ Timed(c, "download", download_timeout(LEGION_REQUEST_TIMEOUT))
           /\ \E content \in Contents :
                 IF content = "raise"
                 THEN /\ dlBytes' = Set(dlBytes, c, None)
                      /\ UNCHANGED <<LAST_SWARMUI_IMAGE_URL, fetched>>
                 ELSE /\ dlBytes' = Set(dlBytes, c, content)
                      /\ LAST_SWARMUI_IMAGE_URL' = image_url
                      /\ fetched' = Set(fetched, c, image_url)
    /\ Goto(c, "downloaded", 0)
    /\ UNCHANGED <<sessions, lowered, response, sent, lastResp, total>>

\* Mutation: the pair returned without the test of image_bytes.
ReturnDownloaded_NoCheck(c) ==
    /\ pc[c] = "downloaded"
    /\ Return(c, [bytes |-> dlBytes[c], url |-> LAST_SWARMUI_IMAGE_URL])
    /\ UNCHANGED <<sessions, gets, lowered, response, sent, lastResp, fetched, dlBytes,
                   timeouts, total, LAST_SWARMUI_IMAGE_URL>>

\* Mutation: a download without bytes followed by the next endpoint.
ReturnDownloaded_NextEndpoint(c) ==
    /\ pc[c] = "downloaded"
    /\ IF dlBytes[c] \notin {None, ""}
       THEN /\ Return(c, [bytes |-> dlBytes[c], url |-> LAST_SWARMUI_IMAGE_URL])
            /\ UNCHANGED <<lowered, response>>
       ELSE Continue(c)
    /\ UNCHANGED <<sessions, gets, sent, lastResp, fetched, dlBytes, timeouts, total,
                   LAST_SWARMUI_IMAGE_URL>>

\* Lines 651-653: `if image_bytes: return image_bytes, LAST_SWARMUI_IMAGE_URL`
ReturnDownloaded(c) ==
    /\ pc[c] = "downloaded"
    /\ IF dlBytes[c] \notin {None, ""}
       THEN Return(c, [bytes |-> dlBytes[c], url |-> LAST_SWARMUI_IMAGE_URL])
       ELSE Return(c, Failure)
    /\ UNCHANGED <<sessions, gets, lowered, response, sent, lastResp, fetched, dlBytes,
                   timeouts, total, LAST_SWARMUI_IMAGE_URL>>

generate_image_on_legion(c) ==
    \/ GetSession(c)
    \/ PostPrimary(c)
    \/ PostFallback(c)
    \/ PostWeightMap(c)
    \/ PostWeightKey(c)
    \/ PostVariant(c)
    \/ PostNoLoras(c)
    \/ PostNoRefiner(c)
    \/ PostCandidate(c)
    \/ CheckResponse(c)
    \/ download_image_from_swarmui(c)
    \/ ReturnDownloaded(c)

----------------------------------------------------------------------------
\* One call: call 1 runs, call 2 is never made.

InitCommon ==
    /\ ep = [c \in Calls |-> 1]
    /\ idx = [c \in Calls |-> 0]
    /\ lowered = [c \in Calls |-> {}]
    /\ response = [c \in Calls |-> NoResponse]
    /\ sent = [c \in Calls |-> <<>>]
    /\ lastResp = [c \in Calls |-> [st |-> "none", text |-> {}]]
    /\ fetched = [c \in Calls |-> None]
    /\ dlBytes = [c \in Calls |-> None]
    /\ result = [c \in Calls |-> NoResult]
    /\ sessions = [c \in Calls |-> <<>>]
    /\ gets = [c \in Calls |-> <<>>]
    /\ timeouts = [c \in Calls |-> {}]
    /\ LAST_SWARMUI_IMAGE_URL = None

Init ==
    /\ InitCommon
    /\ codec = NoCodec
    /\ notion = NoNotion
    /\ norm = NoNorm
    /\ total = NotCounted
    /\ pc = [c \in Calls |-> IF c = 1 THEN "session" ELSE "idle"]

Next ==
    /\ \E c \in Calls : generate_image_on_legion(c)
    /\ UNCHANGED <<codec, notion, norm>>

Spec == Init /\ [][Next]_vars

\* The call runs on one thread that executes statement after statement, and
\* every request it makes carries a timeout, so a step that can be taken is
\* taken.
SpecLive == Spec /\ WF_vars(Next)

\* One call whose generation requests are counted.

InitCount ==
    /\ InitCommon
    /\ codec = NoCodec
    /\ notion = NoNotion
    /\ norm = NoNorm
    /\ total = [c \in Calls |-> 0]
    /\ pc = [c \in Calls |-> IF c = 1 THEN "session" ELSE "idle"]

SpecCount == InitCount /\ [][Next]_vars

\* Successive calls: main's loop over the posts makes the next call of
\* create_notion_page_from_post, and with it of generate_image_on_legion, when
\* the one before has returned.  The locals of the call that returned are
\* gone; of its course the model keeps the pair it returned, the endpoint it
\* ended at and whether the last request it posted was an accepted variant.

LastRequest(q) ==
    IF q # <<>> /\ q[Len(q)].kind = "variant" /\ q[Len(q)].ok
    THEN <<[q[Len(q)] EXCEPT !.i = 0]>>
    ELSE <<>>

\* The locals of a call of generate_image_on_legion before its first statement
FreshFrame(c, prev) ==
    /\ idx' = [idx EXCEPT ![prev] = 0, ![c] = 0]
    /\ lowered' = [lowered EXCEPT ![prev] = {}, ![c] = {}]
    /\ response' = [response EXCEPT ![prev] = NoResponse, ![c] = NoResponse]
    /\ sent' = [sent EXCEPT ![prev] = LastRequest(sent[prev]), ![c] = <<>>]
    /\ lastResp' = [lastResp EXCEPT ![prev] = [st |-> "none", text |-> {}]]
    /\ fetched' = Set(fetched, prev, None)
    /\ dlBytes' = Set(dlBytes, prev, None)
    /\ sessions' = Set(sessions, prev, <<>>)
    /\ gets' = Set(gets, prev, <<>>)
    /\ timeouts' = Set(timeouts, prev, {})

\* Mutation: the next call starts at the endpoint the call before ended at.
StartCall_SameEndpoint(c) ==
    /\ c > 1
    /\ pc[c] = "idle"
    /\ pc[c - 1] = "done"
    /\ pc' = Set(pc, c, "session")
    /\ ep' = Set(ep, c, ep[c - 1])
    /\ FreshFrame(c, c - 1)
    /\ UNCHANGED <<result, total, LAST_SWARMUI_IMAGE_URL>>

\* The loop of main taking its next post: generate_image_on_legion is entered
\* again, `for endpoint in endpoints_to_try` starting from the first endpoint.
StartCall(c) ==
    /\ c > 1
    /\ pc[c] = "idle"
    /\ pc[c - 1] = "done"
    /\ pc' = Set(pc, c, "session")
    /\ ep' = Set(ep, c, 1)
    /\ FreshFrame(c, c - 1)
    /\ UNCHANGED <<result, total, LAST_SWARMUI_IMAGE_URL>>

NextSeq ==
    /\ \E c \in Calls : generate_image_on_legion(c) \/ StartCall(c)
    /\ UNCHANGED <<codec, notion, norm>>

SpecSeq == Init /\ [][NextSeq]_vars

\* Two concurrent calls (one per post of a batch, each on its own thread)
\* against a backend that answers every primary request with a success, an
\* exception or an unclassified rejection.

PostPrimaryDirect(c) ==
    /\ PostPrimary(c)
    /\ pc'[c] \in {"primary", "check", "done"}

InitConc ==
    /\ InitCommon
    /\ codec = NoCodec
    /\ notion = NoNotion
    /\ norm = NoNorm
    /\ total = NotCounted
    /\ pc = [c \in Calls |-> "session"]

NextConc ==
    /\ \E c \in Calls :
          \/ GetSession(c)
          \/ PostPrimaryDirect(c)
          \/ CheckResponse(c)
          \/ download_image_from_swarmui(c)
          \/ ReturnDownloaded(c)
    /\ UNCHANGED <<codec, notion, norm>>

SpecConc == InitConc /\ [][NextConc]_vars

----------------------------------------------------------------------------
\* The data URL branch of the decoder on its own: a test builds the entry from
\* bytes (test_generate_image_on_legion_success), the decoder takes it apart.
\* Strings are sequences of one-character strings, bytes are sequences of
\* numbers below 256.

MaxBytes == 4
ByteValues == {0, 44, 105, 255}

BytesUpTo(n) == UNION {[1..k -> ByteValues] : k \in 0..n}

B64Alphabet ==
    <<"A", "B", "C", "D", "E", "F", "G", "H", "I", "J", "K", "L", "M",
      "N", "O", "P", "Q", "R", "S", "T", "U", "V", "W", "X", "Y", "Z",
      "a", "b", "c", "d", "e", "f", "g", "h", "i", "j", "k", "l", "m",
      "n", "o", "p", "q", "r", "s", "t", "u", "v", "w", "x", "y", "z",
      "0", "1", "2", "3", "4", "5", "6", "7", "8", "9", "+", "/">>

IsB64Char(ch) == \E i \in DOMAIN B64Alphabet : B64Alphabet[i] = ch
IsPad(ch) == ch = "="

\* The character of a 6-bit value
B64Char(v) == B64Alphabet[v + 1]

\* Mutation: the 6-bit value of a character read off by one.
B64Value_OffByOne(ch) == (CHOOSE i \in DOMAIN B64Alphabet : B64Alphabet[i] = ch) % 64

\* The 6-bit value of a character of the alphabet
B64Value(ch) == (CHOOSE i \in DOMAIN B64Alphabet : B64Alphabet[i] = ch) - 1

\* base64.b64encode(b): three bytes make four characters, a last group of one
\* or two bytes is padded with "=".
RECURSIVE b64encode(_)
b64encode(b) ==
    IF Len(b) = 0 THEN <<>>
    ELSE IF Len(b) = 1
    THEN LET n == b[1] * 65536
         IN  <<B64Char(n \div 262144), B64Char((n \div 4096) % 64), "=", "=">>
    ELSE IF Len(b) = 2
    THEN LET n == b[1] * 65536 + b[2] * 256
         IN  <<B64Char(n \div 262144), B64Char((n \div 4096) % 64),
               B64Char((n \div 64) % 64), "=">>
    ELSE LET n == b[1] * 65536 + b[2] * 256 + b[3]
         IN  <<B64Char(n \div 262144), B64Char((n \div 4096) % 64),
               B64Char((n \div 64) % 64), B64Char(n % 64)>>
                 \o b64encode(SubSeq(b, 4, Len(b)))

\* The bytes of the data characters d (all of the alphabet), four at a time.
RECURSIVE DecodeQuads(_)
DecodeQuads(d) ==
    IF Len(d) < 2 THEN <<>>
    ELSE IF Len(d) = 2
    THEN LET n == B64Value(d[1]) * 262144 + B64Value(d[2]) * 4096
         IN  <<n \div 65536>>
    ELSE IF Len(d) = 3
    THEN LET n == B64Value(d[1]) * 262144 + B64Value(d[2]) * 4096
                    + B64Value(d[3]) * 64
         IN  <<n \div 65536, (n \div 256) % 256>>
    ELSE LET n == B64Value(d[1]) * 262144 + B64Value(d[2]) * 4096
                    + B64Value(d[3]) * 64 + B64Value(d[4])
         IN  <<n \div 65536, (n \div 256) % 256, n % 256>>
                 \o DecodeQuads(SubSeq(d, 5, Len(d)))

\* base64.b64decode(s) without validation: characters outside the alphabet are
\* skipped, a last group of two or three characters needs its padding, and a
\* group of one is an error.  The result is "raise" or [bytes |-> ...].
b64decode(s) ==
    LET d == SelectSeq(s, IsB64Char)
        pads == Len(SelectSeq(s, IsPad))
        r == Len(d) % 4
    IN  IF r = 1 \/ (r # 0 /\ pads < 4 - r)
        THEN [raised |-> TRUE, bytes |-> <<>>]
        ELSE [raised |-> FALSE, bytes |-> DecodeQuads(d)]

\* "data:image/png;base64,"
DataUrlHeader ==
    <<"d", "a", "t", "a", ":", "i", "m", "a", "g", "e", "/", "p", "n", "g", ";",
      "b", "a", "s", "e", "6", "4", ",">>

\* first.startswith("data:")
StartsWithData(first) ==
    Len(first) >= 5 /\ SubSeq(first, 1, 5) = <<"d", "a", "t", "a", ":">>

\* first.split(",", 1): the parts before and after the first comma, or the
\* string alone when it has no comma.
SplitFirstComma(first) ==
    IF \E i \in DOMAIN first : first[i] = ","
    THEN LET k == CHOOSE i \in DOMAIN first :
                     first[i] = "," /\ \A j \in 1..(i - 1) : first[j] # ","
         IN  <<SubSeq(first, 1, k - 1), SubSeq(first, k + 1, Len(first))>>
    ELSE <<first>>

\* f"data:image/png;base64,{base64.b64encode(fake_bytes).decode('utf-8')}"
MakeDataUrl ==
    /\ codec.stage = "bytes"
    /\ codec' = [codec EXCEPT !.stage = "entry",
                              !.first = DataUrlHeader \o b64encode(codec.b)]
    /\ UNCHANGED <<pc, ep, idx, lowered, response, sent, lastResp, fetched,
                   dlBytes, result, sessions, gets, timeouts, total, notion, norm,
                   LAST_SWARMUI_IMAGE_URL>>

\* Lines 630-639: the data URL branch, returning (image_bytes, None), or
\* (None, None) when the split or the decoding raises.
DecodeDataUrl ==
    /\ codec.stage = "entry"
    /\ StartsWithData(codec.first)
    /\ LET halves == SplitFirstComma(codec.first)
           image_bytes == IF Len(halves) < 2
                          THEN [raised |-> TRUE, bytes |-> <<>>]
                          ELSE b64decode(halves[2])
       IN  IF image_bytes.raised
           THEN /\ codec' = [codec EXCEPT !.stage = "returned", !.kind = "failure"]
                /\ UNCHANGED LAST_SWARMUI_IMAGE_URL
           ELSE /\ codec' = [codec EXCEPT !.stage = "returned", !.kind = "image",
                                          !.out = image_bytes.bytes]
                /\ LAST_SWARMUI_IMAGE_URL' = None
    /\ UNCHANGED <<pc, ep, idx, lowered, response, sent, lastResp, fetched,
                   dlBytes, result, sessions, gets, timeouts, total, notion, norm>>

InitCodec ==
    /\ InitCommon
    /\ pc = [c \in Calls |-> "idle"]
    /\ notion = NoNotion
    /\ norm = NoNorm
    /\ total = NotCounted
    /\ codec \in {[NoCodec EXCEPT !.stage = "bytes", !.b = b] : b \in BytesUpTo(MaxBytes)}

NextCodec == MakeDataUrl \/ DecodeDataUrl

SpecCodec == InitCodec /\ [][NextCodec]_vars

----------------------------------------------------------------------------
\* create_notion_page_from_post and upload_image_to_notion_page: the page is
\* created, the image generated for a Book Feature post with a title, and the
\* image attached.  generate_image_on_legion is taken by what it returns:
\* (None, None), bytes decoded inline with no URL, or bytes downloaded with
\* their URL.  Bytes are sequences of numbers below 256 or None; URLs are
\* strings.

MaxImageBytes == 2

NoBytes == [none |-> TRUE, b |-> <<>>]
SomeBytes(b) == [none |-> FALSE, b |-> b]

\* Python's truth value of bytes-or-None and of str-or-None
BytesTrue(x) == ~x.none /\ x.b # <<>>
StrTrue(u) == u \notin {None, ""}

OriginUrls == {ImageUrl("View/local/raw/a.png"), ImageUrl("/out/c.png")}

\* What generate_image_on_legion returns
GenerationResults ==
    {[bytes |-> NoBytes, url |-> None]}
        \cup {[bytes |-> SomeBytes(b), url |-> None] : b \in BytesUpTo(MaxImageBytes)}
        \cup {[bytes |-> SomeBytes(b), url |-> u] :
                  b \in BytesUpTo(MaxImageBytes) \ {<<>>}, u \in OriginUrls}

\* f"data:image/png;base64,{base64.b64encode(image_bytes).decode('utf-8')}"
DataUrlOf(image_bytes) == Join(DataUrlHeader \o b64encode(image_bytes.b), "")

\* Mutation: the bytes embedded whenever there are bytes.
AttachedUrl_BytesFirst(image_bytes, external_url) ==
    IF BytesTrue(image_bytes) THEN DataUrlOf(image_bytes) ELSE external_url

\* Lines 217-244: the url of the image block
AttachedUrl(image_bytes, external_url) ==
    IF StrTrue(external_url) THEN external_url ELSE DataUrlOf(image_bytes)

PatchOutcomes == {"ok", "fail", "exc"}

\* upload_image_to_notion_page(page_id, image_bytes, caption, external_url)
upload_image_to_notion_page ==
    /\ notion.stage = "upload"
    /\ LET a == notion.args
           after == IF notion.flow = "create" THEN "returned" ELSE "uploaded"
       IN  IF ~BytesTrue(a.image_bytes) /\ ~StrTrue(a.external_url)
           THEN notion' = [notion EXCEPT !.stage = after, !.ret = "False"]
           ELSE \E out \in PatchOutcomes :
                  notion' = [notion EXCEPT
                                !.stage = after,
                                !.patch = [made |-> TRUE,
                                           url |-> AttachedUrl(a.image_bytes, a.external_url)],
                                !.ret = IF out = "ok" THEN "True" ELSE "False"]

\* Line 877: the page is created, or raise_for_status raises.
CreatePage ==
    /\ notion.stage = "post"
    /\ \E ok \in BOOLEAN :
          notion' = [notion EXCEPT !.stage = IF ok THEN "created" ELSE "raised",
                                   !.page = ok]

\* The image generated and handed to the upload when there are bytes
GenerateAndAttach ==
    \E r \in GenerationResults :
        IF BytesTrue(r.bytes)
        THEN notion' = [notion EXCEPT
                           !.stage = "upload", !.image = r, !.generated = TRUE,
                           !.args = [image_bytes |-> r.bytes, external_url |-> r.url]]
        ELSE notion' = [notion EXCEPT !.stage = "returned", !.image = r,
                                      !.generated = TRUE]

\* Mutation: an image generated for every post.
GenerateForPost_AnyPost ==
    /\ notion.stage = "created"
    /\ GenerateAndAttach

\* Lines 885-893: the image generated for a Book Feature post with a title,
\* and the page returned.
GenerateForPost ==
    /\ notion.stage = "created"
    /\ IF notion.post_type = "Book Feature" /\ notion.book_title # ""
       THEN GenerateAndAttach
       ELSE notion' = [notion EXCEPT !.stage = "returned"]

PostTypes == {"Book Feature", "Other"}
BookTitles == {"", "Dune"}

\* Either a post handed to create_notion_page_from_post, or
\* upload_image_to_notion_page called by itself with any arguments.
InitNotion ==
    /\ InitCommon
    /\ pc = [c \in Calls |-> "idle"]
    /\ codec = NoCodec
    /\ norm = NoNorm
    /\ total = NotCounted
    /\ \/ \E t \in PostTypes, b \in BookTitles :
             notion = [NoNotion EXCEPT !.stage = "post", !.flow = "create",
                                       !.post_type = t, !.book_title = b]
       \/ \E b \in {NoBytes} \cup {SomeBytes(x) : x \in BytesUpTo(MaxImageBytes)},
             u \in {None, ""} \cup OriginUrls :
             notion = [NoNotion EXCEPT !.stage = "upload", !.flow = "direct",
                                       !.args = [image_bytes |-> b, external_url |-> u]]

NextNotion ==
    /\ CreatePage \/ GenerateForPost \/ upload_image_to_notion_page
    /\ UNCHANGED <<pc, ep, idx, lowered, response, sent, lastResp, fetched, dlBytes,
                   result, sessions, gets, timeouts, total, codec, norm,
                   LAST_SWARMUI_IMAGE_URL>>

SpecNotion == InitNotion /\ [][NextNotion]_vars

----------------------------------------------------------------------------
\* main: the loop over the fetched posts, each handed to
\* create_notion_page_from_post inside try/except Exception.

NumPosts == 2

Posts == {[post_type |-> t, book_title |-> b] : t \in PostTypes, b \in BookTitles}

\* Mutation: an exception of one post leaving the loop.
EndPost_Propagates ==
    /\ notion.main
    /\ notion.stage \in {"returned", "raised"}
    /\ notion' = [notion EXCEPT
                      !.stage = IF notion.stage = "raised" THEN "aborted" ELSE "loop",
                      !.outcomes = Append(notion.outcomes, notion.stage)]

\* Lines 920-925: the loop takes its next post and calls
\* create_notion_page_from_post(post).
StartPost ==
    /\ notion.main
    /\ notion.stage = "loop"
    /\ Len(notion.calls) < Len(notion.posts)
    /\ LET i == Len(notion.calls) + 1
       IN  notion' = [NoNotion EXCEPT
                         !.stage = "post", !.flow = "create", !.main = TRUE,
                         !.post_type = notion.posts[i].post_type,
                         !.book_title = notion.posts[i].book_title,
                         !.posts = notion.posts,
                         !.calls = Append(notion.calls, i),
                         !.outcomes = notion.outcomes]

\* Lines 926-928: the call returned, or raised and the except clause caught it.
EndPost ==
    /\ notion.main
    /\ notion.stage \in {"returned", "raised"}
    /\ notion' = [notion EXCEPT !.stage = "loop",
                                !.outcomes = Append(notion.outcomes, notion.stage)]

InitMain ==
    /\ InitCommon
    /\ pc = [c \in Calls |-> "idle"]
    /\ codec = NoCodec
    /\ norm = NoNorm
    /\ total = NotCounted
    /\ \E posts \in [1..NumPosts -> Posts] :
          notion = [NoNotion EXCEPT !.stage = "loop", !.main = TRUE, !.posts = posts]

NextMain ==
    /\ StartPost \/ CreatePage \/ GenerateForPost \/ upload_image_to_notion_page \/ EndPost
    /\ UNCHANGED <<pc, ep, idx, lowered, response, sent, lastResp, fetched, dlBytes,
                   result, sessions, gets, timeouts, total, codec, norm,
                   LAST_SWARMUI_IMAGE_URL>>

SpecMain == InitMain /\ [][NextMain]_vars

\* main runs on one thread and every request it makes carries a timeout, so
\* the loop goes on while it has a step to take.
SpecMainLive == SpecMain /\ WF_vars(NextMain)

----------------------------------------------------------------------------
\* normalize_refiner_method on its own: the value given is any run of up to
\* MaxWords of the pieces below, or the configured value.

MaxWords == 3

Pieces ==
    {<<"P", "o", "s", "t">>, <<"P", "O", "S", "T">>, <<"a", "p", "p", "l", "y">>,
     <<"A", "p", "p">>, <<"l", "y">>, <<"-">>, <<"S", "t", "e", "p">>,
     <<"S", "W", "A", "P">>, <<"N", "o", "i", "s", "y">>, <<"x">>}

RECURSIVE Phrases(_)
Phrases(n) ==
    IF n = 0 THEN {<<>>}
    ELSE Phrases(n - 1) \cup {p \o w : p \in Phrases(n - 1), w \in Pieces}

InitNorm ==
    /\ InitCommon
    /\ pc = [c \in Calls |-> "idle"]
    /\ codec = NoCodec
    /\ notion = NoNotion
    /\ total = NotCounted
    /\ norm \in {[NoNorm EXCEPT !.stage = "given", !.m = m] :
                    m \in Phrases(MaxWords) \cup {LEGION_REFINER_METHOD}}

\* The call normalize_refiner_method(m)
Normalize ==
    /\ norm.stage = "given"
    /\ norm' = [norm EXCEPT !.stage = "returned", !.out = normalize_refiner_method(norm.m)]
    /\ UNCHANGED <<pc, ep, idx, lowered, response, sent, lastResp, fetched, dlBytes,
                   result, sessions, gets, timeouts, total, codec, notion,
                   LAST_SWARMUI_IMAGE_URL>>

NextNorm == Normalize

SpecNorm == InitNorm /\ [][NextNorm]_vars

----------------------------------------------------------------------------
\* Vocabulary of the properties

LastOf(q) == q[Len(q)]

\* The step posts a generation request of call c.
PostedNow(c) == sent'[c] # sent[c]

\* Equality of two tagged values
ValEq(a, b) == a.t = b.t /\ a.v = b.v

IsPrefix(vals, order) ==
    /\ Len(vals) <= Len(order)
    /\ \A i \in 1..Len(vals) : ValEq(vals[i], order[i])

IsVariantReq(r) == r.kind = "variant"

\* The values of the loras field of the string/list variant requests posted to
\* the current endpoint, in the order they were posted.
VariantValues(c) ==
    LET vs == SelectSeq(sent[c], IsVariantReq)
    IN  [i \in 1..Len(vs) |-> PayloadOf(SessionId(c), vs[i])["loras"]]

KindsSent(c) == {sent[c][i].kind : i \in DOMAIN sent[c]}

LoraKinds == {"wmap", "wkey", "variant"}

RefinerSettingKeys ==
    {"refiner_control_percentage", "refiner_method", "refiner_upscale",
     "refiner_upscale_method", "refiner_steps"}

\* The payload carries every configured field, the guidance scale and the
\* adapter names under either of their key names.
HasEveryField(p) ==
    /\ {"model", "width", "height", "steps", "sampler", "scheduler", "weights"}
          \subseteq DOMAIN p
    /\ RefinerSettingKeys \subseteq DOMAIN p
    /\ {"cfgscale", "cfg_scale"} \cap DOMAIN p # {}
    /\ {"loras", "LoRAs"} \cap DOMAIN p # {}

\* The body's first image entry is inline data that base64-decodes.
InlineDecodable(body) ==
    /\ body.json
    /\ body.images # <<>>
    /\ \/ body.images[1].startsData
       \/ ~body.images[1].hasSlash /\ body.images[1].long
    /\ body.images[1].decoded # "raise"

PrimaryAt(e, ok) == [ep |-> e, kind |-> "primary", i |-> 0, ok |-> ok]

UnclassifiedFail == [st |-> "fail", text |-> {}]

----------------------------------------------------------------------------
\* Properties

\* C1: when the primary payload posted to the first endpoint draws a success
\* whose first image entry decodes, the response is handled at once, the call
\* returns the decoded image with no origin URL, and the primary request stays
\* the only generation request of the call.
C1_FirstSuccessOnly ==
    [][\A c \in Calls :
          /\ (pc[c] = "primary" /\ sent'[c] = <<PrimaryAt(1, TRUE)>>)
                => pc'[c] = "check"
          /\ (pc[c] = "check" /\ sent[c] = <<PrimaryAt(1, TRUE)>>
                /\ InlineDecodable(response'[c].body))
                => /\ pc'[c] = "done"
                   /\ sent'[c] = sent[c]
                   /\ result'[c] = [bytes |-> response'[c].body.images[1].decoded,
                                    url |-> None]]_vars

C1_Witness ==
    \E c \in Calls :
        /\ pc[c] = "done"
        /\ sent[c] = <<PrimaryAt(1, TRUE)>>
        /\ result[c] = [bytes |-> "img", url |-> None]

\* C2: once a retry (fallback payload, style-adapter attempt, field-removed
\* payload, refinement attempt) has drawn a success, the call posts no further
\* generation request.
C2_FirstSuccessWins ==
    [][\A c \in Calls :
          (sent[c] # <<>> /\ LastOf(sent[c]).kind # "primary" /\ LastOf(sent[c]).ok)
             => sent'[c] = sent[c]]_vars

\* C3: the first refinement retry carries no refiner-prefixed key, an
\* upscale-method candidate is posted only after a stripped retry that failed,
\* and a call whose stripped retry succeeded ends with a request that carries
\* no refiner key.
C3_StrippedRetryFirst ==
    [][\A c \in Calls :
          /\ (pc[c] = "norefiner" /\ PostedNow(c))
                => \A k \in DOMAIN PayloadOf(SessionId(c), LastOf(sent'[c])) :
                      ~KeyStartsWithRefiner(k)
          /\ (PostedNow(c) /\ LastOf(sent'[c]).kind = "candidate")
                => \E i \in DOMAIN sent[c] :
                      sent[c][i].kind = "norefiner" /\ ~sent[c][i].ok
          /\ (pc'[c] = "done"
                /\ \E i \in DOMAIN sent'[c] :
                      sent'[c][i].kind = "norefiner" /\ sent'[c][i].ok)
                => RefinerSettingKeys
                      \cap DOMAIN PayloadOf(SessionId(c), LastOf(sent'[c])) = {}]_vars

C5_RemovalAfterAllFail ==
    \A c \in Calls :
        \A i \in DOMAIN sent[c] :
            (sent[c][i].kind = "variant" /\ sent[c][i].i = 7 /\ ~sent[c][i].ok)
               => \/ pc[c] = "noloras" /\ ep[c] = sent[c][i].ep /\ i = Len(sent[c])
                  \/ /\ i < Len(sent[c])
                     /\ sent[c][i + 1].kind = "noloras"
                     /\ sent[c][i + 1].ep = sent[c][i].ep

C5_Witness ==
    \E c \in Calls :
        /\ Len(sent[c]) >= 2
        /\ LastOf(sent[c]).kind = "noloras"
        /\ sent[c][Len(sent[c]) - 1].kind = "variant"
        /\ ~sent[c][Len(sent[c]) - 1].ok

\* C6: after a style-adapter attempt (weight-map key, weight key, string/list
\* variant) has drawn a success, no further style-adapter attempt and no
\* field-removed payload is posted to that endpoint.
C6_StopAtFirstAccepted ==
    \A c \in Calls :
        \A i, j \in DOMAIN sent[c] :
            (i < j /\ sent[c][i].kind \in LoraKinds /\ sent[c][i].ok)
               => sent[c][j].kind \notin LoraKinds \cup {"noloras"}

C6_Witness ==
    \E c \in Calls :
        \E i, j \in DOMAIN sent[c] :
            /\ i < j
            /\ sent[c][i].kind \in LoraKinds
            /\ sent[c][i].ok

\* C7 as claimed: after any failed response whose text implicates the model,
\* the next generation request carries every configured field.
C7_AnyModelError ==
    [][\A c \in Calls :
          (lastResp[c].st = "fail" /\ "model" \in lastResp[c].text /\ PostedNow(c))
             => HasEveryField(PayloadOf(SessionId(c), LastOf(sent'[c])))]_vars

\* C7 as amended: after a failed response to the primary payload whose text
\* implicates the model, the next generation request is the fallback payload,
\* posted to the same endpoint, and it carries every configured field.
C7_PrimaryModelError ==
    [][\A c \in Calls :
          (sent[c] # <<>> /\ LastOf(sent[c]).kind = "primary"
              /\ lastResp[c].st = "fail" /\ "model" \in lastResp[c].text)
             => /\ pc[c] = "fallback"
                /\ PostedNow(c) =>
                      /\ LastOf(sent'[c]).kind = "fallback"
                      /\ LastOf(sent'[c]).ep = LastOf(sent[c]).ep
                      /\ HasEveryField(PayloadOf(SessionId(c), LastOf(sent'[c])))]_vars

C7_Witness ==
    \E c \in Calls :
        /\ Len(sent[c]) = 2
        /\ sent[c][1].kind = "primary"
        /\ sent[c][2].kind = "fallback"

\* C8: a connection error on the primary request to the first endpoint leads
\* straight to the primary request to the second, and a connection error on
\* that one ends the call with (None, None): two generation requests, no
\* fallback, variant or reduced payload.
C8_BothConnectionErrors ==
    [][\A c \in Calls :
          /\ (pc[c] = "primary" /\ ep[c] = 1 /\ PostedNow(c) /\ lastResp'[c].st = "conn")
                => /\ pc'[c] = "primary"
                   /\ ep'[c] = 2
                   /\ sent'[c] = <<PrimaryAt(1, FALSE)>>
          /\ (pc[c] = "primary" /\ ep[c] = 2 /\ sent[c] = <<PrimaryAt(1, FALSE)>>
                /\ lastResp[c].st = "conn" /\ PostedNow(c) /\ lastResp'[c].st = "conn")
                => /\ pc'[c] = "done"
                   /\ result'[c] = Failure
                   /\ sent'[c] = <<PrimaryAt(2, FALSE)>>]_vars

C8_Witness ==
    \E c \in Calls :
        /\ pc[c] = "done"
        /\ sent[c] = <<PrimaryAt(2, FALSE)>>
        /\ lastResp[c].st = "conn"
        /\ result[c] = Failure

\* C9: a primary rejection whose text matches no classification is followed by
\* no further request to that endpoint: the response is handled next, the log
\* of the endpoint stays the primary request alone, and the engine moves to the
\* next endpoint (or, after the last one, returns failure), where the request
\* it posts is the primary payload.
C9_UnclassifiedMovesOn ==
    [][\A c \in Calls :
          /\ (pc[c] = "primary" /\ PostedNow(c) /\ lastResp'[c] = UnclassifiedFail)
                => pc'[c] = "check"
          /\ (pc[c] = "check" /\ Len(sent[c]) = 1 /\ lastResp[c] = UnclassifiedFail)
                => /\ sent'[c] = sent[c]
                   /\ IF ep[c] < Len(endpoints_to_try)
                      THEN pc'[c] = "primary" /\ ep'[c] = ep[c] + 1
                      ELSE pc'[c] = "done" /\ result'[c] = Failure
          /\ (pc[c] = "primary" /\ ep[c] = 2 /\ PostedNow(c))
                => /\ Len(sent'[c]) = 1
                   /\ LastOf(sent'[c]).kind = "primary"
                   /\ LastOf(sent'[c]).ep = 2]_vars

C9_Witness ==
    \E c \in Calls :
        /\ pc[c] = "primary"
        /\ ep[c] = 2
        /\ sent[c] = <<PrimaryAt(1, FALSE)>>
        /\ lastResp[c] = UnclassifiedFail

\* C10: the origin URL a call returns with downloaded bytes is the URL that
\* call itself downloaded from, whatever another call does meanwhile.
C10_OwnOriginUrl ==
    \A c \in Calls :
        (pc[c] = "done" /\ fetched[c] # None /\ result[c].bytes = dlBytes[c])
           => result[c].url = fetched[c]

----------------------------------------------------------------------------
\* Vocabulary of the properties, continued

AnyOkSent(c) == \E i \in DOMAIN sent[c] : sent[c][i].ok

Positions ==
    {"primary", "fallback", "wmap", "wkey", "variant", "noloras", "norefiner",
     "candidate", "check", "download", "downloaded", "done"}

IsCandidateReq(r) == r.kind = "candidate"

\* The values of refiner_upscale_method of the candidate requests posted to the
\* current endpoint, in the order they were posted.
CandidateValues(c) ==
    LET cs == SelectSeq(sent[c], IsCandidateReq)
    IN  [i \in 1..Len(cs) |-> PayloadOf(SessionId(c), cs[i])["refiner_upscale_method"]]

\* The call has moved on from endpoint e to the next one, or has ended with
\* (None, None) after the last.
MovesOnFrom(c, e) ==
    IF e < 2
    THEN pc'[c] = "primary" /\ ep'[c] = e + 1 /\ result'[c] = NoResult
    ELSE pc'[c] = "done" /\ result'[c] = Failure

\* C11: a session request that yields no session id (connection error,
\* non-success status, any other error, a response without session_id) is the
\* only session request of the call, and the call has returned (None, None)
\* without posting a generation request or issuing a download.
C11_SessionFailureEnds ==
    \A c \in Calls :
        /\ Len(sessions[c]) <= 1
        /\ (sessions[c] # <<>> /\ sessions[c][1] # "ok")
              => /\ pc[c] = "done"
                 /\ result[c] = Failure
                 /\ sent[c] = <<>>
                 /\ gets[c] = <<>>

C11_Witness ==
    \E c \in Calls :
        /\ sessions[c] = <<"status">>
        /\ pc[c] = "done"
        /\ result[c] = Failure

\* C12: whatever the backend answers, a call that has started reaches its
\* return.
C12_Terminates ==
    \A c \in Calls : (pc[c] = "session") ~> (pc[c] = "done")

C12_Witness ==
    \E c \in Calls :
        /\ pc[c] = "done"
        /\ ep[c] = 2
        /\ Len(sent[c]) = 30

\* C13: a call is downloading, has issued a download, or has returned an image
\* only if a generation request to the endpoint it is at drew a success; with
\* no success it returns (None, None) and issues no download.
C13_NoSuccessNoImage ==
    \A c \in Calls :
        /\ (pc[c] \in {"download", "downloaded"} \/ gets[c] # <<>>) => AnyOkSent(c)
        /\ (pc[c] = "done" /\ ~AnyOkSent(c))
              => result[c] = Failure /\ gets[c] = <<>> /\ fetched[c] = None

C13_Witness ==
    \E c \in Calls :
        /\ pc[c] = "done"
        /\ ep[c] = 2
        /\ sent[c] # <<>>
        /\ ~AnyOkSent(c)
        /\ lastResp[c].st = "fail"
        /\ result[c] = Failure

\* C14: a returned pair is (None, None), or inline bytes with no URL and no
\* download issued, or downloaded non-empty bytes with the URL of the one
\* download the call issued.
C14_ReturnShapes ==
    \A c \in Calls :
        pc[c] = "done" =>
            \/ result[c] = Failure
            \/ /\ result[c].url = None
               /\ gets[c] = <<>>
               /\ ClassifyEntry(response[c].body.images[1]) \in {"dataurl", "rawb64"}
               /\ result[c].bytes = response[c].body.images[1].decoded
               /\ result[c].bytes \notin {None, "raise"}
            \/ /\ result[c].url # None
               /\ gets[c] = <<result[c].url>>
               /\ fetched[c] = result[c].url
               /\ result[c].bytes = dlBytes[c]
               /\ result[c].bytes \notin {None, ""}

C14_Witness ==
    \E c \in Calls :
        /\ pc[c] = "done"
        /\ result[c].bytes = "dl"
        /\ result[c].url = "http://legion:7861/View/local/raw/a.png"

\* C15: no exception leaves the call.  An exception of a generation request
\* leads to a further position of the flow or to (None, None); a success body
\* that is not JSON leads to the next endpoint or to (None, None); a download
\* that raises comes back without bytes and the call returns (None, None).
C15_FailuresHandled ==
    [][\A c \in Calls :
          /\ result'[c] # Raised
          /\ (PostedNow(c) /\ lastResp'[c].st \in ExcKinds)
                => /\ pc'[c] \in Positions
                   /\ pc'[c] = "done" => result'[c] = Failure
          /\ (pc[c] = "check" /\ ResponseOk(c) /\ pc'[c] # "check"
                /\ ~response'[c].body.json)
                => sent'[c] = sent[c] /\ MovesOnFrom(c, ep[c])
          /\ (pc[c] = "download" /\ pc'[c] # "download")
                => pc'[c] = "downloaded" /\ result'[c] = NoResult
          /\ (pc[c] = "downloaded" /\ dlBytes[c] = None /\ pc'[c] # "downloaded")
                => pc'[c] = "done" /\ result'[c] = Failure]_vars

C15_Witness ==
    \E c \in Calls :
        /\ pc[c] = "done"
        /\ gets[c] # <<>>
        /\ dlBytes[c] = None
        /\ result[c] = Failure

\* C16: a retry that raises (timeout or any transport error) is followed by
\* the next planned attempt of its search, by the next search, or, for the
\* field-removed retry, by the next endpoint.
C16_RetryErrorSkipsAttempt ==
    [][\A c \in Calls :
          (PostedNow(c) /\ LastOf(sent'[c]).kind # "primary"
              /\ lastResp'[c].st \in RetryExcKinds)
             => LET r == LastOf(sent'[c])
                IN  CASE r.kind = "fallback" ->
                           pc'[c] = (IF "lora" \in lowered[c] THEN "wmap"
                                     ELSE IF "refiner" \in lowered[c] THEN "norefiner"
                                     ELSE "check")
                      [] r.kind = "wmap" ->
                           IF r.i < 8 THEN pc'[c] = "wmap" /\ idx'[c] = r.i + 1
                           ELSE pc'[c] = "wkey" /\ idx'[c] = 1
                      [] r.kind = "wkey" ->
                           IF r.i < 8 THEN pc'[c] = "wkey" /\ idx'[c] = r.i + 1
                           ELSE pc'[c] = "variant" /\ idx'[c] = 1
                      [] r.kind = "variant" ->
                           IF r.i < 7 THEN pc'[c] = "variant" /\ idx'[c] = r.i + 1
                           ELSE pc'[c] = "noloras"
                      [] r.kind = "noloras" -> MovesOnFrom(c, r.ep)
                      [] r.kind = "norefiner" -> pc'[c] = "candidate" /\ idx'[c] = 1
                      [] r.kind = "candidate" ->
                           IF r.i < 3 THEN pc'[c] = "candidate" /\ idx'[c] = r.i + 1
                           ELSE pc'[c] = "check"]_vars

C16_Witness ==
    \E c \in Calls :
        /\ pc[c] = "variant"
        /\ idx[c] = 4
        /\ LastOf(sent[c]).kind = "variant"
        /\ LastOf(sent[c]).i = 3
        /\ lastResp[c].st = "timeout"

\* C17: the upscale-method candidates posted to an endpoint are, in order,
\* pixel-lanczos, latent-bicubic, model-<configured method>, none twice, and
\* none follows a candidate that drew a success.
C17_CandidateOrder ==
    \A c \in Calls :
        /\ IsPrefix(CandidateValues(c),
                    <<Str("pixel-lanczos"), Str("latent-bicubic"),
                      Str("model-4xRealWebPhoto_v4_dat2.safetensors")>>)
        /\ \A i, j \in DOMAIN sent[c] :
              (i < j /\ sent[c][i].kind = "candidate" /\ sent[c][j].kind = "candidate")
                 => ~sent[c][i].ok

C17_Witness ==
    \E c \in Calls :
        /\ Len(CandidateValues(c)) = 3
        /\ LastOf(sent[c]).ok

\* C18: a success response whose body has no images yields no image and no
\* further request to that endpoint: the call goes to the next endpoint, or
\* returns (None, None) after the last one.
C18_EmptyImagesNextEndpoint ==
    [][\A c \in Calls :
          (pc[c] = "check" /\ ResponseOk(c) /\ pc'[c] # "check"
              /\ response'[c].body.json /\ response'[c].body.images = <<>>)
             => /\ sent'[c] = sent[c]
                /\ gets'[c] = gets[c]
                /\ MovesOnFrom(c, ep[c])]_vars

C18_Witness ==
    \E c \in Calls :
        /\ pc[c] = "done"
        /\ result[c] = Failure
        /\ sent[c] = <<PrimaryAt(2, TRUE)>>
        /\ response[c].body.json
        /\ response[c].body.images = <<>>

\* C19: a call issues at most one download, against server address + "/" +
\* path of the pointer entry, and an origin URL it returns is that URL.
C19_DownloadUrl ==
    \A c \in Calls :
        /\ Len(gets[c]) <= 1
        /\ pc[c] = "downloaded" => Len(gets[c]) = 1
        /\ gets[c] # <<>>
              => /\ gets[c][1]
                      = "http://legion:7861" \o "/" \o response[c].body.images[1].text
                 /\ (pc[c] = "done" /\ result[c] # Failure)
                       => result[c].url = gets[c][1]

C19_Witness ==
    \E c \in Calls :
        /\ pc[c] = "done"
        /\ gets[c] = <<"http://legion:7861//out/c.png">>
        /\ result[c] = [bytes |-> "dl", url |-> "http://legion:7861//out/c.png"]

\* C20: the decoder applied to "data:image/png;base64," followed by the base64
\* text of bytes b returns b itself, with no origin URL.
C20_DataUrlRoundTrip ==
    codec.stage = "returned"
       => /\ codec.kind = "image"
          /\ codec.out = codec.b
          /\ LAST_SWARMUI_IMAGE_URL = None

C20_Witness ==
    /\ codec.stage = "returned"
    /\ codec.kind = "image"
    /\ codec.b = <<105, 44, 255, 0>>

\* The entry the call has decoded, when it has returned from the decoder.
HasDecoded(c) ==
    /\ pc[c] = "done"
    /\ response[c].st = "ok"
    /\ response[c].body.json
    /\ response[c].body.images # <<>>

InlineReturn(c, first) ==
    /\ gets[c] = <<>>
    /\ result[c] = IF first.decoded = "raise" THEN Failure
                   ELSE [bytes |-> first.decoded, url |-> None]

\* C21: the first image entry is handled by the first test it satisfies, in
\* the order data-URL prefix, no '/' and long (raw base64), pointer, and
\* otherwise fails: an inline entry is decoded without a download, a pointer
\* is downloaded once, anything else gives (None, None) without a download.
C21_DecoderOrder ==
    \A c \in Calls :
        HasDecoded(c) =>
            LET first == response[c].body.images[1]
            IN  IF first.startsData THEN InlineReturn(c, first)
                ELSE IF ~first.hasSlash /\ first.long THEN InlineReturn(c, first)
                ELSE IF first.pointerLike THEN Len(gets[c]) = 1
                ELSE result[c] = Failure /\ gets[c] = <<>>

C21_Witness ==
    \E c \in Calls :
        /\ HasDecoded(c)
        /\ response[c].body.images[1] = DataViewEntry
        /\ gets[c] = <<>>
        /\ result[c] = [bytes |-> "img2", url |-> None]

\* The requests of kind k that call c posted to the current endpoint
SentOfKind(c, k) == {sent[c][i] : i \in {j \in DOMAIN sent[c] : sent[c][j].kind = k}}

\* p and q have the same keys and equal values under every key outside keys.
SameExcept(p, q, keys) ==
    /\ DOMAIN p = DOMAIN q
    /\ \A k \in DOMAIN q \ keys : ValEq(p[k], q[k])

AdapterNameKeys == {"loras", "LoRAs"}

\* C22: every string/list variant retry is the primary payload with only the
\* values under loras and LoRAs changed; every other key and value, the
\* weights included, is that of the primary payload.
C22_VariantChangesNamesOnly ==
    \A c \in Calls : \A r \in SentOfKind(c, "variant") :
        /\ SameExcept(PayloadOf(SessionId(c), r), payload(SessionId(c)), AdapterNameKeys)
        /\ ValEq(PayloadOf(SessionId(c), r)["loras"], variants[r.i])
        /\ ValEq(PayloadOf(SessionId(c), r)["LoRAs"], variants[r.i])

C22_Witness ==
    \E c \in Calls : \E r \in SentOfKind(c, "variant") :
        /\ PayloadOf(SessionId(c), r)["loras"].t = "str"
        /\ PayloadOf(SessionId(c), r)["LoRAs"].t = "str"
        /\ r.i = Len(variants) - 1
        /\ ValEq(PayloadOf(SessionId(c), r)["weights"], List(loras_weights_list))

\* C23: the field-removed retry carries no style-adapter information: no key
\* naming the adapters, no parallel weights list, and otherwise the primary
\* payload.
C23_RemovedCarriesNoAdapterInfo ==
    \A c \in Calls : \A r \in SentOfKind(c, "noloras") :
        LET p == PayloadOf(SessionId(c), r)
            q == payload(SessionId(c))
        IN  /\ \A k \in DOMAIN p : ~KeyHasLora(k)
            /\ "weights" \notin DOMAIN p
            /\ \A k \in DOMAIN p : ValEq(p[k], q[k])

\* Adapter names, one of them without a configured weight
AdapterNames == {"A", "B", "C"}

WeightedJoins ==
    {Join(build_weighted_loras, d) : d \in {",", "|||", "|", " ", ";", ""}}

\* C25: every delimiter-joined string encoding of the adapter field that is
\* sent embeds each adapter's weight as a name:weight pair.
C25_StringsEmbedWeights ==
    \A c \in Calls : \A r \in SentOfKind(c, "variant") :
        LET v == PayloadOf(SessionId(c), r)["loras"]
        IN  v.t = "str" => v.v \in WeightedJoins

\* The string encodings of the adapter names, by delimiter
StringEncodings == {Str(Join(parts, d)) : d \in {",", " ", "|", "|||", ";", ""}}

\* A backend that accepts a payload exactly when its loras field is v
Accepts(v, p) == "loras" \in DOMAIN p /\ ValEq(p["loras"], v)

\* Every answer that call c drew at the first endpoint is the answer of a
\* backend that accepts the encoding v only, the rejection of the primary
\* payload having started the style-adapter search.
AcceptsOnly(c, v) ==
    /\ sent[c] # <<>>
    /\ sent[c][1].ep = 1
    /\ "wmap" \in KindsSent(c)
    /\ \A j \in DOMAIN sent[c] :
           sent[c][j].ok <=> Accepts(v, PayloadOf(SessionId(c), sent[c][j]))

\* The call has returned or has given up the first endpoint.
LeftFirstEndpoint(c) == pc[c] = "done" \/ ep[c] > 1

TimeoutValues == {1, 29, 30, 31, 299, 300, 301, 600}

TimeoutsOf(c, op) == {r.timeout : r \in {x \in timeouts[c] : x.op = op}}

\* C28: every request of the generation flow is made with a timeout: each
\* generation request with the configured one, the session request with the
\* smaller of the configured one and 30, the download with the smaller of the
\* configured one and 300.
C28_EveryRequestTimed ==
    /\ \A c \in Calls :
          /\ sessions[c] # <<>> => TimeoutsOf(c, "session") = {30}
          /\ sent[c] # <<>> => TimeoutsOf(c, "generate") = {LEGION_REQUEST_TIMEOUT}
          /\ gets[c] # <<>> => TimeoutsOf(c, "download") = {300}
          /\ TimeoutsOf(c, "generate") \subseteq {LEGION_REQUEST_TIMEOUT}
    /\ \A t \in TimeoutValues :
          /\ session_timeout(t) = IF t < 30 THEN t ELSE 30
          /\ download_timeout(t) = IF t < 300 THEN t ELSE 300

C28_Witness ==
    \E c \in Calls :
        /\ pc[c] = "done"
        /\ {"candidate", "norefiner"} \subseteq KindsSent(c)
        /\ gets[c] # <<>>
        /\ {r.op : r \in timeouts[c]} = {"session", "generate", "download"}

\* The call is at the start of generate_image_on_legion with nothing done.
AtStart(c) ==
    /\ ep[c] = 1
    /\ idx[c] = 0
    /\ sent[c] = <<>>
    /\ lowered[c] = {}
    /\ response[c] = NoResponse
    /\ result[c] = NoResult

\* C27: no outcome of a call is carried to the next: whatever the earlier
\* call returned and wherever it ended, a call starts with nothing done, its
\* first generation request is the primary payload at the first endpoint, and
\* the URL it returns is the one it downloaded from itself.
C27_NothingCarriedOver ==
    [][\A c \in Calls :
          /\ pc'[c] = "session" => AtStart(c)'
          /\ (pc[c] = "session" /\ pc'[c] = "primary") => (ep'[c] = 1 /\ sent'[c] = <<>>)
          /\ (sent[c] = <<>> /\ PostedNow(c))
                => /\ Len(sent'[c]) = 1
                   /\ sent'[c][1].ep = 1
                   /\ sent'[c][1].kind = "primary"
                   /\ PayloadOf(SessionId(c), sent'[c][1]) = payload(SessionId(c))
          /\ (pc[c] = "downloaded" /\ pc'[c] = "done" /\ result'[c] # Failure)
                => result'[c].url = ImageUrl(response[c].body.images[1].text)]_vars

C27_Witness ==
    /\ pc[1] = "done"
    /\ ep[1] = 2
    /\ result[1].bytes = "img"
    /\ sent[1] # <<>>
    /\ sent[1][1].kind = "variant"
    /\ LAST_SWARMUI_IMAGE_URL = None
    /\ sent[2] = <<PrimaryAt(1, FALSE)>>

\* C29: the image block is attached by the origin URL when generation
\* returned one and by the data URL embedding the bytes otherwise; given both
\* bytes and an external URL, upload_image_to_notion_page sends the external
\* URL and not the embedded bytes.
C29_AttachByUrlElseBytes ==
    notion.patch.made =>
        /\ notion.flow = "create" =>
              /\ BytesTrue(notion.image.bytes)
              /\ notion.image.url # None => notion.patch.url = notion.image.url
              /\ notion.image.url = None =>
                     notion.patch.url = DataUrlOf(notion.image.bytes)
        /\ (BytesTrue(notion.args.image_bytes) /\ StrTrue(notion.args.external_url)) =>
              /\ notion.patch.url = notion.args.external_url
              /\ notion.patch.url # DataUrlOf(notion.args.image_bytes)

C29_Witness ==
    /\ notion.flow = "create"
    /\ notion.stage = "returned"
    /\ notion.patch.made
    /\ notion.image.url = ImageUrl("View/local/raw/a.png")
    /\ notion.image.bytes = SomeBytes(<<105, 44>>)
    /\ notion.patch.url = "http://legion:7861/View/local/raw/a.png"

\* The letters a and b are the same up to case.
SameLetter(a, b) == a = b \/ \E i \in 1..26 : {a, b} = {UpperCase[i], LowerCase[i]}

\* m contains the word w, whatever the case of its letters.
Mentions(m, w) ==
    \E i \in 1..Len(m) :
        /\ i + Len(w) - 1 <= Len(m)
        /\ \A k \in 1..Len(w) : SameLetter(m[i + k - 1], w[k])

\* Every generation request the flow can post
AllRequests ==
    {[ep |-> 1, kind |-> k, i |-> 0, ok |-> FALSE] :
        k \in {"primary", "fallback", "noloras", "norefiner"}}
      \cup {[ep |-> 1, kind |-> "wmap", i |-> i, ok |-> FALSE] :
               i \in 1..Len(weight_map_candidates)}
      \cup {[ep |-> 1, kind |-> "wkey", i |-> i, ok |-> FALSE] :
               i \in 1..(2 * Len(weight_key_candidates))}
      \cup {[ep |-> 1, kind |-> "variant", i |-> i, ok |-> FALSE] : i \in 1..Len(variants)}
      \cup {[ep |-> 1, kind |-> "candidate", i |-> i, ok |-> FALSE] :
               i \in 1..Len(FALLBACK_REFINER_CANDIDATES)}

\* C30: normalize_refiner_method returns PostApply for a value containing
\* "post" and "apply" in any case, otherwise StepSwap for one containing
\* "stepswap", otherwise StepSwapNoisy for one containing "noisy", and any
\* other value, the empty one included, as given; every payload that has a
\* refiner_method carries the normalized configured value, not the text as
\* configured.
C30_RefinerMethodNormalized ==
    /\ norm.stage = "returned" =>
          Join(norm.out, "") =
              IF Mentions(norm.m, <<"p", "o", "s", "t">>)
                 /\ Mentions(norm.m, <<"a", "p", "p", "l", "y">>)
              THEN "PostApply"
              ELSE IF Mentions(norm.m, <<"s", "t", "e", "p", "s", "w", "a", "p">>)
              THEN "StepSwap"
              ELSE IF Mentions(norm.m, <<"n", "o", "i", "s", "y">>)
              THEN "StepSwapNoisy"
              ELSE Join(norm.m, "")
    /\ norm.stage = "returned" /\ norm.m = LEGION_REFINER_METHOD =>
          \A r \in AllRequests :
              LET p == PayloadOf("sess-1", r)
              IN  "refiner_method" \in DOMAIN p =>
                      /\ ValEq(p["refiner_method"], Str(Join(norm.out, "")))
                      /\ ~ValEq(p["refiner_method"], Str(Join(LEGION_REFINER_METHOD, "")))

C30_Witness ==
    /\ norm.stage = "returned"
    /\ Join(norm.m, "") = "POST-apply"
    /\ Join(norm.out, "") = "PostApply"

\* The fallback payload was the last request of call c and it was rejected
\* with a text containing word.
FallbackRejectedWith(c, word) ==
    /\ sent[c] # <<>>
    /\ LastOf(sent[c]).kind = "fallback"
    /\ lastResp[c].st = "fail"
    /\ word \in lastResp[c].text

\* C31 as stated: once the fallback payload is rejected with a text that
\* mentions the refiner, the refinement search runs at the same endpoint.
C31_RefinerMentionRunsSearch ==
    \A c \in Calls : \A e \in 1..Len(endpoints_to_try) :
        (FallbackRejectedWith(c, "refiner") /\ ep[c] = e)
            ~> ("norefiner" \in KindsSent(c) /\ sent[c][1].ep = e)

\* C31: the text of a rejected fallback payload is classified with the text
\* of the primary rejection: if either mentions LoRAs the style-adapter
\* search runs next at the same endpoint, and if neither does and either
\* mentions the refiner the refinement search runs next at the same endpoint.
C31_FallbackTextClassified ==
    [][\A c \in Calls :
          (pc[c] = "fallback" /\ PostedNow(c) /\ lastResp'[c].st = "fail")
             => /\ lowered'[c] = lowered[c] \cup lastResp'[c].text
                /\ ep'[c] = ep[c]
                /\ "lora" \in lowered'[c] => (pc'[c] = "wmap" /\ idx'[c] = 1)
                /\ ("lora" \notin lowered'[c] /\ "refiner" \in lowered'[c])
                      => pc'[c] = "norefiner"]_vars

C31_Witness ==
    \E c \in Calls :
        /\ FallbackRejectedWith(c, "lora")
        /\ lastResp[c].text = {"lora"}
        /\ pc[c] = "wmap"
        /\ lowered[c] = {"model", "lora"}

IsSearchReq(r) == r.kind \in LoraKinds \cup {"noloras"}

\* The requests of the style-adapter search posted to the current endpoint
SearchRequests(c) == SelectSeq(sent[c], IsSearchReq)

Attempt(kind, key, val) == [kind |-> kind, key |-> key, val |-> val]

WeightsMapValue == Map([A |-> "0.9", B |-> "0.6"])
WeightsListValue == List(<<Flt("0.9"), Flt("0.6")>>)
WeightsStringValue == Str("0.9,0.6")

\* The attempts of the search in the claimed order: the key set and its value
SearchOrder ==
    <<Attempt("wmap", "loras_weights_map", WeightsMapValue),
      Attempt("wmap", "loras_map", WeightsMapValue),
      Attempt("wmap", "lora_weights_map", WeightsMapValue),
      Attempt("wmap", "lora_map", WeightsMapValue),
      Attempt("wmap", "weights_map", WeightsMapValue),
      Attempt("wmap", "weightsMap", WeightsMapValue),
      Attempt("wmap", "LoRAWeightsMap", WeightsMapValue),
      Attempt("wmap", "loras_to_weights", WeightsMapValue),
      Attempt("wkey", "loras_weights", WeightsListValue),
      Attempt("wkey", "loras_weights", WeightsStringValue),
      Attempt("wkey", "lora_weights", WeightsListValue),
      Attempt("wkey", "lora_weights", WeightsStringValue),
      Attempt("wkey", "weights", WeightsListValue),
      Attempt("wkey", "weights", WeightsStringValue),
      Attempt("wkey", "LoRAWeights", WeightsListValue),
      Attempt("wkey", "LoRAWeights", WeightsStringValue),
      Attempt("variant", "loras", Str("A,B")),
      Attempt("variant", "loras", Str("A B")),
      Attempt("variant", "loras", Str("A|B")),
      Attempt("variant", "loras", Str("A|||B")),
      Attempt("variant", "loras", Str("A;B")),
      Attempt("variant", "loras", Str("AB")),
      Attempt("variant", "loras", List(<<"A", "B">>)),
      Attempt("noloras", "loras", Str(""))>>

\* The request r is the attempt a.
IsAttempt(c, r, a) ==
    LET p == PayloadOf(SessionId(c), r)
    IN  /\ r.kind = a.kind
        /\ IF a.kind = "noloras" THEN a.key \notin DOMAIN p
           ELSE a.key \in DOMAIN p /\ ValEq(p[a.key], a.val)

\* C32: while every attempt fails, the style-adapter search at one endpoint
\* sends the 8 weight-map keys, the 4 weight keys each as a list and then as a
\* comma string, the names comma-joined, space-joined, single-pipe,
\* triple-pipe, semicolon-joined, concatenated and as a list, and last the
\* field-removed payload, in this order.
C32_SearchOrder ==
    \A c \in Calls :
        LET reqs == SearchRequests(c)
        IN  /\ Len(reqs) <= Len(SearchOrder)
            /\ \A j \in 1..Len(reqs) :
                  /\ IsAttempt(c, reqs[j], SearchOrder[j])
                  /\ j < Len(reqs) => ~reqs[j].ok

C32_Witness ==
    \E c \in Calls :
        /\ Len(SearchRequests(c)) = Len(SearchOrder)
        /\ \A j \in 1..Len(SearchOrder) : ~SearchRequests(c)[j].ok

\* Two payloads with the same keys and the same value under each
SamePayload(p, q) ==
    /\ DOMAIN p = DOMAIN q
    /\ \A k \in DOMAIN p : ValEq(p[k], q[k])

\* C33: within one call no payload is posted twice to the same endpoint:
\* every request differs in a key or a value from every request posted to
\* that endpoint before it.
C33_NoPayloadTwice ==
    \A c \in Calls : \A j, k \in DOMAIN sent[c] :
        j < k => ~SamePayload(PayloadOf(SessionId(c), sent[c][j]),
                              PayloadOf(SessionId(c), sent[c][k]))

\* Call c holds a success response drawn at its current endpoint that it has
\* not yet handed to the decoder.
HoldsUnreadSuccess(c) ==
    /\ pc[c] \in {"fallback", "wmap", "wkey", "variant", "noloras", "norefiner", "candidate"}
    /\ sent[c] # <<>>
    /\ sent[c][1].ep = ep[c]
    /\ AnyOkSent(c)

\* C34: a success is never thrown away: a call that holds a success response
\* of the current endpoint neither moves to the next endpoint nor returns
\* (None, None) before it has decoded that response.
C34_SuccessNeverDiscarded ==
    [][\A c \in Calls : HoldsUnreadSuccess(c) => ~MovesOnFrom(c, ep[c])]_vars

IsRefinerReq(r) == r.kind \in {"norefiner", "candidate"}

\* C35: when the classified text mentions the style adapter and the refiner,
\* the style-adapter search runs first; the refinement search follows at the
\* same endpoint once an attempt of the search or the field-removed retry is
\* accepted, and when the field-removed retry fails too the call moves to the
\* next endpoint without a refinement attempt.
C35_AdapterSearchBeforeRefiner ==
    [][\A c \in Calls :
          /\ (pc[c] = "primary" /\ PostedNow(c) /\ {"lora", "refiner"} \subseteq lowered'[c]
                /\ "model" \notin lowered'[c])
                => (pc'[c] = "wmap" /\ ep'[c] = ep[c])
          /\ (pc[c] \in LoraKinds \cup {"noloras"} /\ PostedNow(c)
                /\ "refiner" \in lowered[c] /\ LastOf(sent'[c]).ok)
                => (pc'[c] = "norefiner" /\ ep'[c] = ep[c])
          /\ (pc[c] = "noloras" /\ PostedNow(c) /\ ~LastOf(sent'[c]).ok)
                => /\ MovesOnFrom(c, ep[c])
                   /\ \A j \in DOMAIN sent'[c] : ~IsRefinerReq(sent'[c][j])
          /\ \A j, k \in DOMAIN sent[c] :
                (IsSearchReq(sent[c][j]) /\ IsRefinerReq(sent[c][k])) => j < k
          /\ (\E j, k \in DOMAIN sent[c] :
                 IsSearchReq(sent[c][j]) /\ IsRefinerReq(sent[c][k]))
                => \E j \in DOMAIN sent[c] : IsSearchReq(sent[c][j]) /\ sent[c][j].ok]_vars

C35_Witness ==
    \E c \in Calls :
        /\ pc[c] = "norefiner"
        /\ lowered[c] = {"lora", "refiner"}
        /\ sent[c][1] = PrimaryAt(1, FALSE)
        /\ LastOf(sent[c]).kind = "noloras"
        /\ LastOf(sent[c]).ok

\* The first image entry of the body is one the decoder gets no image from
\* without a download: unknown format, or inline data that does not decode.
Undecodable(body) ==
    /\ body.json
    /\ body.images # <<>>
    /\ \/ ClassifyEntry(body.images[1]) = "unknown"
       \/ /\ ClassifyEntry(body.images[1]) \in {"dataurl", "rawb64"}
          /\ body.images[1].decoded = "raise"

\* Call c posts or requests nothing in the step.
NoRequestNow(c) ==
    /\ sent'[c] = sent[c]
    /\ gets'[c] = gets[c]
    /\ sessions'[c] = sessions[c]

\* C36: when the first image entry of an accepted response has an unknown
\* format, does not base64-decode, or is a pointer whose download fails or
\* yields no bytes, the call returns (None, None) at once, whatever endpoints
\* remain, and makes no further request.
C36_BadEntryEndsCall ==
    [][\A c \in Calls :
          /\ (pc[c] = "check" /\ ResponseOk(c) /\ Undecodable(response'[c].body))
                => /\ pc'[c] = "done"
                   /\ result'[c] = Failure
                   /\ ep'[c] = ep[c]
                   /\ NoRequestNow(c)
          /\ (pc[c] = "downloaded" /\ dlBytes[c] \in {None, ""})
                => /\ pc'[c] = "done"
                   /\ result'[c] = Failure
                   /\ ep'[c] = ep[c]
                   /\ NoRequestNow(c)
          /\ pc[c] = "done" => (pc'[c] = "done" /\ NoRequestNow(c))]_vars

C36_Witness ==
    \E c \in Calls :
        /\ pc[c] = "done"
        /\ ep[c] = 1
        /\ result[c] = Failure
        /\ Len(gets[c]) = 1
        /\ dlBytes[c] = ""
        /\ sent[c] = <<PrimaryAt(1, TRUE)>>

\* How many requests of the current endpoint's log satisfy Test
CountOf(c, Test(_)) == Len(SelectSeq(sent[c], Test))

IsPrimaryReq(r) == r.kind = "primary"
IsFallbackReq(r) == r.kind = "fallback"

\* C37: a call posts at most 30 generation requests to one endpoint (1
\* primary, 1 model fallback, at most 24 of the style-adapter search with the
\* field-removed one, at most 4 of the refinement search), at most 60 in all,
\* and makes at most one session request and one download request.
C37_RequestBounds ==
    \A c \in Calls :
        /\ CountOf(c, IsPrimaryReq) <= 1
        /\ CountOf(c, IsFallbackReq) <= 1
        /\ CountOf(c, IsSearchReq) <= 24
        /\ CountOf(c, IsRefinerReq) <= 4
        /\ Len(sent[c]) <= 30
        /\ total[c] <= 60
        /\ Len(sessions[c]) <= 1
        /\ Len(gets[c]) <= 1

C37_Witness ==
    \E c \in Calls :
        /\ total[c] = 60
        /\ Len(sent[c]) = 30
        /\ Len(sessions[c]) = 1
        /\ Len(gets[c]) = 1

\* The step is the download of call c returning content.
DownloadSucceeds(c) ==
    /\ pc[c] = "download"
    /\ dlBytes'[c] # None
    /\ fetched'[c] = ImageUrl(response[c].body.images[1].text)

\* The step is call c returning an image decoded inline.
InlineDecoded(c) ==
    /\ pc[c] = "check"
    /\ pc'[c] = "done"
    /\ result'[c] # Failure
    /\ result'[c].url = None

\* C38: LAST_SWARMUI_IMAGE_URL changes only when a download succeeds, to the
\* URL downloaded from, or when an inline image is decoded, to None; a call
\* that ends in failure without a successful download leaves it holding what
\* the call before left.
C38_GlobalChangesOnlyOnImage ==
    [][/\ LAST_SWARMUI_IMAGE_URL' # LAST_SWARMUI_IMAGE_URL
          => \E c \in Calls :
                \/ DownloadSucceeds(c) /\ LAST_SWARMUI_IMAGE_URL' = fetched'[c]
                \/ InlineDecoded(c) /\ LAST_SWARMUI_IMAGE_URL' = None
       /\ \A c \in Calls :
             (c > 1 /\ pc[c] = "done" /\ result[c] = Failure /\ fetched[c] = None
                /\ result[c - 1] # Failure
                /\ \A d \in Calls : d > c => pc[d] = "idle")
                => LAST_SWARMUI_IMAGE_URL = result[c - 1].url]_vars

C38_Witness ==
    /\ pc[2] = "done"
    /\ result[2] = Failure
    /\ Len(gets[2]) = 1
    /\ fetched[2] = None
    /\ result[1].url = "http://legion:7861/View/local/raw/a.png"
    /\ LAST_SWARMUI_IMAGE_URL = result[1].url

\* C39: create_notion_page_from_post generates an image only once the page
\* is created and only for a Book Feature post with a title; without bytes no
\* upload request is made; and once the page is created the call returns it,
\* whatever becomes of the image.
C39_ImageAfterPageForBookFeature ==
    notion.flow = "create" =>
        /\ notion.generated =>
              /\ notion.page
              /\ notion.post_type = "Book Feature"
              /\ notion.book_title # ""
        /\ notion.patch.made => (notion.generated /\ BytesTrue(notion.image.bytes))
        /\ notion.page => notion.stage \in {"created", "upload", "returned"}
        /\ notion.stage = "raised" => (~notion.page /\ ~notion.generated)
        /\ notion.stage = "returned" => notion.page

C39_Witness ==
    /\ notion.flow = "create"
    /\ notion.stage = "returned"
    /\ notion.generated
    /\ notion.image = [bytes |-> SomeBytes(<<>>), url |-> None]
    /\ ~notion.patch.made

\* The posts 1..n in order
FirstPosts(n) == [j \in 1..n |-> j]

\* C40: main hands the posts to create_notion_page_from_post in order, each
\* exactly once, and an exception raised for one post does not keep the later
\* posts from being processed: every post is processed in the end.
C40_EveryPostOnce ==
    /\ [](/\ notion.calls = FirstPosts(Len(notion.calls))
          /\ Len(notion.calls) <= NumPosts
          /\ Len(notion.outcomes) <= Len(notion.calls)
          /\ Len(notion.calls) <= Len(notion.outcomes) + 1)
    /\ <>(/\ notion.stage = "loop"
          /\ notion.calls = FirstPosts(NumPosts)
          /\ Len(notion.outcomes) = NumPosts)

C40_Witness ==
    /\ notion.stage = "loop"
    /\ notion.calls = FirstPosts(NumPosts)
    /\ Len(notion.outcomes) = NumPosts
    /\ notion.outcomes[1] = "raised"
    /\ notion.outcomes[NumPosts] = "returned"

====
